---- MODULE Spec2Model ----
(***************************************************************************)
(* Capture processing pipeline of the memex repository:                    *)
(*   pages/api/process-capture.js  (handler)                               *)
(*   lib/textProcessing.js         (processCapture and its helpers,        *)
(*                                  semanticSearch, fullTextSearch,        *)
(*                                  hybridSearch)                          *)
(*   pages/api/search.js           (search handler)                        *)
(*   lib/api.js                    (processAllPendingCaptures)             *)
(* Every await of an external capability (storage, OCR, embedding) is one  *)
(* atomic step: the effect of the call together with the local code that   *)
(* runs until the next await is issued.                                    *)
(***************************************************************************)
EXTENDS Integers, Sequences, FiniteSets, TLC

\* ---------------------------------------------------------------- bounds
\* number of process-capture requests that may be in flight
NumRequests == 2

Requests == 1..NumRequests

\* ------------------------------------------------------------ vocabulary
\* JavaScript null / undefined
NULL == "NULL"

\* the capture row of the captures table and its owner
CaptureId == "c1"
OwnerId == "u1"

\* what a caller may send as captureId / userId / method
BodyCaptureIds == {NULL, CaptureId, "c9"}
BodyUserIds == {NULL, OwnerId, "u2"}
Methods == {"POST", "GET"}

\* what new Date().toISOString() yields, abstracted to one value
Now == "ts"

\* the vector returned by the embedding service
Vector == "vec"

\* a user-authored note (tags are lists of strings)
NoteDoctor == "Doctor appointment tomorrow at 3pm"

\* the captures the upload flow has saved: media kind and locator, note,
\* tags (tags change nothing next to a note: both make the combined text
\* non-empty)
Kind(type, url, note, tags) ==
    [media_type |-> type, media_url |-> url, note |-> note, tags |-> tags]

CaptureKinds ==
    {Kind("image", "url", NULL, <<>>),
     Kind("image", "url", NULL, <<"health">>),
     Kind("image", "url", NoteDoctor, <<"health">>),
     Kind("video", "url", NULL, <<>>),
     Kind("audio", NULL, NULL, <<>>),
     Kind("audio", NULL, NULL, <<"health">>),
     Kind("audio", NULL, NoteDoctor, <<"health">>)}

\* outcomes of visionClient.textDetection: it throws, finds no detection,
\* or returns a first detection with this description
Detections == {"throw", "none", "console.log('x')", "Invoice"}

Statuses == {"pending", "processing", "completed", "failed"}

\* messages of the errors the collaborators raise
StorageMessage == "storage error"
VisionMessage == "vision error"
OpenAIMessage == "openai error"

VARIABLES
    captures,       \* the persisted capture row (captures table)
    pc,             \* position of each request in handler / processCapture
    body,           \* req.body and req.method of each request
    args,           \* processCapture's parameters (from the row as read)
    extractedText,  \* processCapture's local extractedText
    temporalInfo,   \* processCapture's local temporalInfo
    embedding,      \* processCapture's local embedding
    error,          \* message of the error caught by processCapture
    res,            \* the response sent by the handler
    ocrCalls,       \* history: OCR calls issued by the running attempt
    embCalls,       \* history: embedding calls issued by the running attempt
    writes,         \* history: storage updates issued by the running attempt
    parseErrors,    \* history: temporal extraction errors the attempt logged
    query,          \* req.method and req.query of the search request
    spc,            \* position of the search handler
    semantic,       \* the semanticSearch invocation of the search request
    fulltext,       \* the fullTextSearch invocation of the search request
    sres,           \* the response sent by the search handler
    calls,          \* history: functions and collaborators the search invoked
    bpc,            \* position of processAllPendingCaptures
    pendingCaptures,\* the captures the batch selected
    settlements,    \* the process requests of the batch, as allSettled sees them
    report,         \* what processAllPendingCaptures returned or threw
    applied,        \* how many times the library function under test ran
    given,          \* the arguments of its latest call
    returned        \* what that call returned

vars == <<captures, pc, body, args, extractedText, temporalInfo,
          embedding, error, res, ocrCalls, embCalls, writes, parseErrors,
          query, spc, semantic, fulltext, sres, calls,
          bpc, pendingCaptures, settlements, report,
          applied, given, returned>>

\* the state of the process-capture requests and of the search request
processing == <<captures, pc, body, args, extractedText, temporalInfo,
                embedding, error, res, ocrCalls, embCalls, writes,
                parseErrors>>
search == <<query, spc, semantic, fulltext, sres, calls>>
batch == <<bpc, pendingCaptures, settlements, report>>
library == <<applied, given, returned>>

locals == <<extractedText, temporalInfo, embedding, error>>
history == <<ocrCalls, embCalls, writes, parseErrors>>

\* ------------------------------------------------------- pure functions

\* a function with no field: the empty object
Empty == [f \in {} |-> NULL]

\* `if (cond) obj[name] = val`
OptField(cond, name, val) == IF cond THEN name :> val ELSE Empty

\* supabase update(fields).eq("id", id): only the listed fields change
ApplyUpdate(row, fields) ==
    [f \in DOMAIN row |-> IF f \in DOMAIN fields THEN fields[f] ELSE row[f]]

\* String.prototype.trim followed by a truthiness test
TrimmedNonEmpty(s) == s \notin {NULL, "", " "}

\* cleanExtractedText on the descriptions of Detections
cleanExtractedText(rawText) ==
    IF rawText \in {NULL, ""} THEN ""
    ELSE IF rawText = "console.log('x')" THEN ""
    ELSE rawText

\* extractTextFromImage once textDetection has answered with detection d
extractTextFromImage(d) ==
    IF d = "none" THEN "" ELSE cleanExtractedText(d)

\* [note, extractedText].filter(Boolean), the parts joined by a blank line
AllText(note, text) ==
    SelectSeq(<<note, text>>, LAMBDA p : p \notin {NULL, ""})

\* calculateConfidence, in hundredths
ConfidenceBase == 80
YearBonus == 10
MonthBonus == 5
HourBonus == 5
ShortPenalty == 20
RelativePenalty == 10
ConfidenceMax == 100

Min(a, b) == IF a < b THEN a ELSE b
Max(a, b) == IF a > b THEN a ELSE b

\* mutant of calculateConfidence: the penalties are added and the result
\* is not clamped
calculateConfidenceUnclamped(m) ==
    ConfidenceBase + (IF m.hasYear THEN YearBonus ELSE 0)
        + (IF m.hasMonth THEN MonthBonus ELSE 0)
        + (IF m.hasHour THEN HourBonus ELSE 0)
        + (IF m.short THEN ShortPenalty ELSE 0)
        + (IF m.relative THEN RelativePenalty ELSE 0)

calculateConfidence(m) ==
    LET c1 == ConfidenceBase + (IF m.hasYear THEN YearBonus ELSE 0)
        c2 == c1 + (IF m.hasMonth THEN MonthBonus ELSE 0)
        c3 == c2 + (IF m.hasHour THEN HourBonus ELSE 0)
        c4 == c3 - (IF m.short THEN ShortPenalty ELSE 0)
        c5 == c4 - (IF m.relative THEN RelativePenalty ELSE 0)
    IN  Min(ConfidenceMax, Max(0, c5))

\* chrono.parse(text)[0] on the texts of the model: the best match, if any
NoMatch == [found |-> FALSE]
ChronoBest(text) ==
    IF \E i \in 1..Len(text) : text[i] = NoteDoctor
    THEN [found |-> TRUE, text |-> "tomorrow at 3pm", hasYear |-> FALSE,
          hasMonth |-> FALSE, hasHour |-> TRUE, short |-> FALSE,
          relative |-> TRUE]
    ELSE NoMatch

\* extractTemporalContext: the normalized keys of the context phrases
extractTemporalContext(text) ==
    IF \E i \in 1..Len(text) : text[i] = NoteDoctor
    THEN {"tomorrow"} ELSE {}

NullInfo ==
    [isNull |-> TRUE, extractedDate |-> NULL, extractedTime |-> NULL,
     extractedDatetime |-> NULL, confidence |-> 0, temporalContext |-> {}]

\* extractTemporalInfo lines 225-255: the results object built from the best
\* match m and the context phrases ctx, or null when it has neither
TemporalResults(m, ctx) ==
    LET date == IF m.found THEN "date" ELSE NULL
        time == IF m.found /\ m.hasHour THEN "time" ELSE NULL
    IN  IF date # NULL \/ time # NULL \/ ctx # {}
        THEN [isNull |-> FALSE,
              extractedDate |-> date,
              extractedTime |-> time,
              extractedDatetime |-> IF m.found THEN "datetime" ELSE NULL,
              confidence |-> IF m.found THEN calculateConfidence(m) ELSE 0,
              temporalContext |-> ctx]
        ELSE NullInfo

\* mutant of extractTemporalInfo: a throwing parser is retried and its
\* matches are used
extractTemporalInfoRetried(text, parserOk) ==
    IF text = <<>> THEN NullInfo
    ELSE TemporalResults(ChronoBest(text), extractTemporalContext(text))

\* extractTemporalInfo; parserOk = FALSE is chrono.parse throwing
extractTemporalInfo(text, parserOk) ==
    IF text = <<>> THEN NullInfo
    ELSE IF ~parserOk THEN NullInfo
    ELSE TemporalResults(ChronoBest(text), extractTemporalContext(text))

\* combineTextForEmbedding(...).trim().length > 0
CombinedNonEmpty(note, text, tags, ctx) ==
    \/ TrimmedNonEmpty(note)
    \/ TrimmedNonEmpty(text)
    \/ Len(tags) > 0
    \/ ctx # {}

\* ------------------------------------------------------------ the handler

\* mutants of HandlerDecision: the 'processing' check is missing; the
\* 'completed' check is missing; a failed capture is refused like one in
\* progress
HandlerDecisionNoBusy(status) ==
    IF status = "completed" THEN "cached" ELSE "process"

HandlerDecisionNoCached(status) ==
    IF status = "processing" THEN "busy" ELSE "process"

HandlerDecisionFailedFinal(status) ==
    IF status = "completed" THEN "cached"
    ELSE IF status \in {"processing", "failed"} THEN "busy"
    ELSE "process"

\* the three-way decision of the handler on the row it has read
HandlerDecision(status) ==
    IF status = "completed" THEN "cached"
    ELSE IF status = "processing" THEN "busy"
    ELSE "process"

NoBody == [captureId |-> NULL, userId |-> NULL]
NoArgs == [captureId |-> NULL]
NoError == <<>>

\* the errors processCapture can catch: prefix and wrapped message
OcrError == <<"Google Vision OCR failed", VisionMessage>>
StatusUpdateError == <<"Failed to update processing status", StorageMessage>>
FinalUpdateError == <<StorageMessage>>

\* handler lines 74-80: the arguments processCapture is called with
CallArgs(row) ==
    [captureId |-> row.id, imageUrl |-> row.media_url,
     note |-> row.note, tags |-> row.tags]
NoRes == [status |-> 0]

\* mutant of ProcessingUpdate: the first update also resets the text
ProcessingUpdateResets ==
    [processing_status |-> "processing", extracted_text |-> ""]

\* the update processCapture sends first
ProcessingUpdate == [processing_status |-> "processing"]

\* mutants of FailedUpdate: the catch block also clears the text; the
\* catch block sets no timestamp
FailedUpdateClearsText ==
    [processing_status |-> "failed", processed_at |-> Now,
     extracted_text |-> ""]

FailedUpdateNoTimestamp == [processing_status |-> "failed"]

\* the update processCapture's catch block sends
FailedUpdate == [processing_status |-> "failed", processed_at |-> Now]

\* mutant of CompletedUpdate: the text is stored only when there is some
CompletedUpdateSkipsEmptyText(text, emb, info) ==
    [processing_status |-> "completed", processed_at |-> Now]
    @@ OptField(text # "", "extracted_text", text)
    @@ OptField(emb # NULL, "embedding", emb)
    @@ OptField(~info.isNull /\ info.extractedDate # NULL,
                "extracted_date", info.extractedDate)
    @@ OptField(~info.isNull /\ info.extractedTime # NULL,
                "extracted_time", info.extractedTime)
    @@ OptField(~info.isNull /\ info.extractedDatetime # NULL,
                "extracted_datetime", info.extractedDatetime)
    @@ OptField(~info.isNull /\ info.confidence # 0,
                "date_confidence", {info.confidence})
    @@ OptField(~info.isNull /\ info.temporalContext # {},
                "temporal_context", info.temporalContext)

\* updateData of processCapture's step 5
CompletedUpdate(text, emb, info) ==
    [extracted_text |-> text, processing_status |-> "completed",
     processed_at |-> Now]
    @@ OptField(emb # NULL, "embedding", emb)
    @@ OptField(~info.isNull /\ info.extractedDate # NULL,
                "extracted_date", info.extractedDate)
    @@ OptField(~info.isNull /\ info.extractedTime # NULL,
                "extracted_time", info.extractedTime)
    @@ OptField(~info.isNull /\ info.extractedDatetime # NULL,
                "extracted_datetime", info.extractedDatetime)
    @@ OptField(~info.isNull /\ info.confidence # 0,
                "date_confidence", {info.confidence})
    @@ OptField(~info.isNull /\ info.temporalContext # {},
                "temporal_context", info.temporalContext)

\* mutant of AfterStatusWrite: updateError is not inspected
AfterStatusWriteIgnoresError(ok) == "continue"

\* where processCapture goes after the 'processing' write answered
AfterStatusWrite(ok) == IF ok THEN "continue" ELSE "throw"

\* where processCapture goes after the final update answered
AfterFinalWrite(ok) == IF ok THEN "return" ELSE "throw"

\* the row the upload flow inserts for a capture of kind k
NewCapture(k) ==
    [id |-> CaptureId, user_id |-> OwnerId,
     media_type |-> k.media_type, media_url |-> k.media_url,
     note |-> k.note, tags |-> k.tags,
     created_at |-> 1,
     processing_status |-> "pending",
     extracted_text |-> NULL, embedding |-> NULL,
     processed_at |-> NULL,
     extracted_date |-> NULL, extracted_time |-> NULL,
     extracted_datetime |-> NULL, date_confidence |-> {},
     temporal_context |-> {}]

\* no process-capture request has arrived
InitProcessing ==
    /\ pc = [r \in Requests |-> "idle"]
    /\ body = [r \in Requests |-> NoBody]
    /\ args = [r \in Requests |-> NoArgs]
    /\ extractedText = [r \in Requests |-> ""]
    /\ temporalInfo = [r \in Requests |-> NullInfo]
    /\ embedding = [r \in Requests |-> NULL]
    /\ error = [r \in Requests |-> NoError]
    /\ res = [r \in Requests |-> NoRes]
    /\ ocrCalls = [r \in Requests |-> 0]
    /\ embCalls = [r \in Requests |-> 0]
    /\ parseErrors = [r \in Requests |-> 0]
    /\ writes = [r \in Requests |-> <<>>]

\* no search request has arrived
NoQuery == [method |-> NULL]
NoLookup == [pc |-> "off"]
NoCalls ==
    [invoked |-> {}, embedding |-> 0, rpc |-> 0, select |-> 0,
     created |-> "none"]

InitSearching ==
    /\ query = NoQuery
    /\ spc = "idle"
    /\ semantic = NoLookup
    /\ fulltext = NoLookup
    /\ sres = NoRes
    /\ calls = NoCalls

\* no batch has been started
NoReport == [processed |-> -1]

InitBatching ==
    /\ bpc = "idle"
    /\ pendingCaptures = <<>>
    /\ settlements = <<>>
    /\ report = NoReport

\* no library function is under test
InitLibrary ==
    /\ applied = 0
    /\ given = <<>>
    /\ returned = <<>>

Init ==
    /\ \E k \in CaptureKinds : captures = NewCapture(k)
    /\ InitProcessing
    /\ InitSearching
    /\ InitBatching
    /\ InitLibrary

\* one more entry in the attempt's history of storage updates: the status
\* the update carries and whether storage accepted it
Logged(r, fields, ok) ==
    writes' = [writes EXCEPT ![r] =
                  Append(@, [status |-> fields.processing_status, ok |-> ok])]

\* handler lines 11-27: method and body validation (no await)
HandlerValidate(r) ==
    /\ UNCHANGED <<search, batch, library>>
    /\ pc[r] = "idle"
    /\ \E m \in Methods, cid \in BodyCaptureIds, uid \in BodyUserIds :
         /\ body' = [body EXCEPT ![r] =
                IF m = "POST" /\ cid # NULL /\ uid # NULL
                THEN [captureId |-> cid, userId |-> uid] ELSE NoBody]
         /\ IF m # "POST"
            THEN /\ res' = [res EXCEPT ![r] =
                       [status |-> 405, error |-> "Method not allowed"]]
                 /\ pc' = [pc EXCEPT ![r] = "done"]
            ELSE IF cid = NULL
            THEN /\ res' = [res EXCEPT ![r] =
                       [status |-> 400, error |-> "Capture ID is required"]]
                 /\ pc' = [pc EXCEPT ![r] = "done"]
            ELSE IF uid = NULL
            THEN /\ res' = [res EXCEPT ![r] =
                       [status |-> 400, error |-> "User ID is required"]]
                 /\ pc' = [pc EXCEPT ![r] = "done"]
            ELSE /\ res' = res
                 /\ pc' = [pc EXCEPT ![r] = "fetch"]
    /\ UNCHANGED <<captures, args, locals, history>>

\* mutant of SelectSingle: the row is selected by id alone
SelectSingleAnyOwner(fetchOk, b, row) ==
    /\ fetchOk
    /\ b.captureId = row.id

\* handler lines 31-36: select().eq("id").eq("user_id").single() yields the
\* row when storage answers and the row has that id and that owner
SelectSingle(fetchOk, b, row) ==
    /\ fetchOk
    /\ b.captureId = row.id
    /\ b.userId = row.user_id

\* handler lines 29-80: the select answers; 404, cached 200, 202, or the
\* call of processCapture, which runs up to its first await
HandlerFetch(r) ==
    /\ UNCHANGED <<search, batch, library>>
    /\ pc[r] = "fetch"
    /\ \E fetchOk \in BOOLEAN :
         LET found == SelectSingle(fetchOk, body[r], captures)
             decision == HandlerDecision(captures.processing_status)
         IN  IF ~found
             THEN /\ res' = [res EXCEPT ![r] =
                        [status |-> 404, error |-> "Capture not found",
                         details |-> IF fetchOk
                                     THEN "No capture found with the given ID and user ID"
                                     ELSE StorageMessage]]
                  /\ pc' = [pc EXCEPT ![r] = "done"]
                  /\ args' = args
                  /\ body' = [body EXCEPT ![r] = NoBody]
             ELSE IF decision = "cached"
             THEN /\ res' = [res EXCEPT ![r] =
                        [status |-> 200, success |-> TRUE,
                         message |-> "Capture already processed",
                         extractedText |-> captures.extracted_text,
                         hasEmbedding |-> captures.embedding # NULL]]
                  /\ pc' = [pc EXCEPT ![r] = "done"]
                  /\ args' = args
                  /\ body' = [body EXCEPT ![r] = NoBody]
             ELSE IF decision = "busy"
             THEN /\ res' = [res EXCEPT ![r] =
                        [status |-> 202, success |-> FALSE,
                         message |-> "Capture is currently being processed",
                         processing_status |-> "processing"]]
                  /\ pc' = [pc EXCEPT ![r] = "done"]
                  /\ args' = args
                  /\ body' = [body EXCEPT ![r] = NoBody]
             ELSE /\ res' = res
                  /\ pc' = [pc EXCEPT ![r] = "status"]
                  /\ args' = [args EXCEPT ![r] = CallArgs(captures)]
                  /\ body' = body
    /\ UNCHANGED <<captures, locals, history>>

\* processCapture lines 387-413: temporal extraction and text combination
\* on the extracted text, up to the embedding call (or the final update)
AfterText(r, text, parserOk) ==
    LET allText == AllText(args[r].note, text)
        info == extractTemporalInfo(allText, parserOk)
        nonEmpty == CombinedNonEmpty(args[r].note, text, args[r].tags,
                                     info.temporalContext)
    IN  /\ extractedText' = [extractedText EXCEPT ![r] = text]
        /\ parseErrors' = [parseErrors EXCEPT ![r] =
                IF allText # <<>> /\ ~parserOk THEN @ + 1 ELSE @]
        /\ temporalInfo' = [temporalInfo EXCEPT ![r] = info]
        /\ embedding' = [embedding EXCEPT ![r] = NULL]
        /\ embCalls' = [embCalls EXCEPT ![r] = IF nonEmpty THEN @ + 1 ELSE @]
        /\ pc' = [pc EXCEPT ![r] = IF nonEmpty THEN "embed" ELSE "final"]

\* processCapture lines 363-385: the 'processing' update answers
PcStatusProcessing(r) ==
    /\ UNCHANGED <<search, batch, library>>
    /\ pc[r] = "status"
    /\ \E ok \in BOOLEAN :
         /\ Logged(r, ProcessingUpdate, ok)
         /\ captures' = IF ok THEN ApplyUpdate(captures, ProcessingUpdate)
                        ELSE captures
         /\ IF AfterStatusWrite(ok) = "throw"
            THEN /\ error' = [error EXCEPT ![r] = StatusUpdateError]
                 /\ pc' = [pc EXCEPT ![r] = "catch"]
                 /\ UNCHANGED <<extractedText, temporalInfo, embedding,
                                ocrCalls, embCalls, parseErrors>>
            ELSE IF args[r].imageUrl # NULL
            THEN /\ ocrCalls' = [ocrCalls EXCEPT ![r] = @ + 1]
                 /\ pc' = [pc EXCEPT ![r] = "ocr"]
                 /\ UNCHANGED <<locals, embCalls, parseErrors>>
            ELSE /\ \E parserOk \in BOOLEAN : AfterText(r, "", parserOk)
                 /\ UNCHANGED <<error, ocrCalls>>
    /\ UNCHANGED <<body, args, res>>

\* processCapture lines 381-413: extractTextFromImage answers
PcExtractText(r) ==
    /\ UNCHANGED <<search, batch, library>>
    /\ pc[r] = "ocr"
    /\ \E d \in Detections :
         IF d = "throw"
         THEN /\ error' = [error EXCEPT ![r] = OcrError]
              /\ pc' = [pc EXCEPT ![r] = "catch"]
              /\ UNCHANGED <<extractedText, temporalInfo, embedding, embCalls,
                             parseErrors>>
         ELSE /\ \E parserOk \in BOOLEAN :
                   AfterText(r, extractTextFromImage(d), parserOk)
              /\ error' = error
    /\ UNCHANGED <<captures, body, args, res, ocrCalls, writes>>

\* mutant of PcGenerateEmbedding: the embedding error is not caught locally
PcGenerateEmbeddingFatal(r) ==
    /\ UNCHANGED <<search, batch, library>>
    /\ pc[r] = "embed"
    /\ \E ok \in BOOLEAN :
         IF ok
         THEN /\ embedding' = [embedding EXCEPT ![r] = Vector]
              /\ pc' = [pc EXCEPT ![r] = "final"]
              /\ UNCHANGED <<extractedText, temporalInfo, error>>
         ELSE /\ error' = [error EXCEPT ![r] =
                    <<"Embedding generation failed", OpenAIMessage>>]
              /\ pc' = [pc EXCEPT ![r] = "catch"]
              /\ extractedText' = [extractedText EXCEPT ![r] = ""]
              /\ temporalInfo' = [temporalInfo EXCEPT ![r] = NullInfo]
              /\ embedding' = [embedding EXCEPT ![r] = NULL]
    /\ UNCHANGED <<captures, body, args, res, history>>

\* processCapture lines 404-410: generateEmbedding answers; a failure is
\* logged and processing goes on without an embedding
PcGenerateEmbedding(r) ==
    /\ UNCHANGED <<search, batch, library>>
    /\ pc[r] = "embed"
    /\ \E ok \in BOOLEAN :
         embedding' = [embedding EXCEPT ![r] = IF ok THEN Vector ELSE NULL]
    /\ pc' = [pc EXCEPT ![r] = "final"]
    /\ UNCHANGED <<captures, body, args, extractedText, temporalInfo,
                   error, res, history>>

\* processCapture lines 415-461: the final update answers
PcFinalUpdate(r) ==
    /\ UNCHANGED <<search, batch, library>>
    /\ pc[r] = "final"
    /\ \E ok \in BOOLEAN :
         LET updateData == CompletedUpdate(extractedText[r], embedding[r],
                                           temporalInfo[r])
         IN  /\ Logged(r, updateData, ok)
             /\ captures' = IF ok THEN ApplyUpdate(captures, updateData)
                            ELSE captures
             /\ IF AfterFinalWrite(ok) = "throw"
                THEN \* the locals of the try block are out of scope
                     /\ error' = [error EXCEPT ![r] = FinalUpdateError]
                     /\ pc' = [pc EXCEPT ![r] = "catch"]
                     /\ extractedText' = [extractedText EXCEPT ![r] = ""]
                     /\ temporalInfo' = [temporalInfo EXCEPT ![r] = NullInfo]
                     /\ embedding' = [embedding EXCEPT ![r] = NULL]
                ELSE /\ error' = error
                     /\ pc' = [pc EXCEPT ![r] = "return"]
                     /\ UNCHANGED <<extractedText, temporalInfo, embedding>>
    /\ UNCHANGED <<body, args, res, ocrCalls, embCalls, parseErrors>>

\* mutant of PcCatch: the error is rethrown without marking the capture
PcCatchNoWrite(r) ==
    /\ UNCHANGED <<search, batch, library>>
    /\ pc[r] = "catch"
    /\ pc' = [pc EXCEPT ![r] = "rethrow"]
    /\ UNCHANGED <<captures, body, args, locals, res, history>>

\* processCapture lines 462-475: the catch block's 'failed' update
\* answers (its result is not inspected), then the error is rethrown
PcCatch(r) ==
    /\ UNCHANGED <<search, batch, library>>
    /\ pc[r] = "catch"
    /\ \E ok \in BOOLEAN :
         /\ Logged(r, FailedUpdate, ok)
         /\ captures' = IF ok THEN ApplyUpdate(captures, FailedUpdate)
                        ELSE captures
    /\ pc' = [pc EXCEPT ![r] = "rethrow"]
    /\ UNCHANGED <<body, args, locals, res, ocrCalls, embCalls, parseErrors>>

\* handler lines 82-97: the answer after processCapture returned or threw;
\* the request's locals die with it
HandlerRespond(r) ==
    /\ UNCHANGED <<search, batch, library>>
    /\ pc[r] \in {"return", "rethrow"}
    /\ res' = [res EXCEPT ![r] =
           IF pc[r] = "return"
           THEN [status |-> 200, success |-> TRUE,
                 extractedText |-> extractedText[r],
                 hasEmbedding |-> embedding[r] # NULL,
                 temporalInfo |-> temporalInfo[r]]
           ELSE [status |-> 500, error |-> "Processing failed",
                 details |-> error[r]]]
    /\ pc' = [pc EXCEPT ![r] = "done"]
    /\ body' = [body EXCEPT ![r] = NoBody]
    /\ args' = [args EXCEPT ![r] = NoArgs]
    /\ extractedText' = [extractedText EXCEPT ![r] = ""]
    /\ temporalInfo' = [temporalInfo EXCEPT ![r] = NullInfo]
    /\ embedding' = [embedding EXCEPT ![r] = NULL]
    /\ error' = [error EXCEPT ![r] = NoError]
    /\ ocrCalls' = [ocrCalls EXCEPT ![r] = 0]
    /\ embCalls' = [embCalls EXCEPT ![r] = 0]
    /\ parseErrors' = [parseErrors EXCEPT ![r] = 0]
    /\ writes' = [writes EXCEPT ![r] = <<>>]
    /\ captures' = captures

\* no other request is inside the handler
Quiet(r) == \A q \in Requests \ {r} : pc[q] \in {"idle", "done"}

Next ==
    \E r \in Requests :
        \/ HandlerValidate(r)
        \/ HandlerFetch(r)
        \/ PcStatusProcessing(r)
        \/ PcExtractText(r)
        \/ PcGenerateEmbedding(r)
        \/ PcFinalUpdate(r)
        \/ PcCatch(r)
        \/ HandlerRespond(r)

\* requests arrive one after the other: a request is accepted only when
\* no other is in flight
NextSeq ==
    \E r \in Requests :
        \/ HandlerValidate(r) /\ Quiet(r)
        \/ HandlerFetch(r)
        \/ PcStatusProcessing(r)
        \/ PcExtractText(r)
        \/ PcGenerateEmbedding(r)
        \/ PcFinalUpdate(r)
        \/ PcCatch(r)
        \/ HandlerRespond(r)

Spec == Init /\ [][Next]_vars

SpecSeq == Init /\ [][NextSeq]_vars

\* ============================================================ the search
\* pages/api/search.js and the search functions of lib/textProcessing.js

\* ---------------------------------------------------------------- bounds
\* number of rows match_captures may answer with
MaxMatches == 2

\* ------------------------------------------------------------ vocabulary
\* what a caller may send as q, type, limit and userId
Queries == {NULL, " ", "invoice"}
Types == {NULL, "semantic", "fulltext", "hybrid"}
Limits == {NULL, "1", "3", "x", "-3"}
QueryUserIds == {NULL, OwnerId}

\* the rows of the captures table next to the capture being processed:
\* two more captures of the owner and one of another user
OtherCaptures ==
    {[id |-> "c2", user_id |-> OwnerId, processing_status |-> "completed",
      created_at |-> 2],
     [id |-> "c3", user_id |-> OwnerId, processing_status |-> "completed",
      created_at |-> 3],
     [id |-> "c4", user_id |-> "u2", processing_status |-> "completed",
      created_at |-> 4]}

\* the columns of a row the search queries filter and order on
SearchRow(row) ==
    [id |-> row.id, user_id |-> row.user_id,
     processing_status |-> row.processing_status,
     created_at |-> row.created_at]

\* the captures table
Table == {SearchRow(captures)} \cup OtherCaptures

TableIds == {row.id : row \in Table}

\* similarities and relevance scores are fractions <<numerator, denominator>>
\* with a positive denominator
FracLess(a, b) == a[1] * b[2] < b[1] * a[2]
FracLeq(a, b) == a[1] * b[2] <= b[1] * a[2]

\* the similarities match_captures may report
Similarities == {<<0, 1>>, <<7, 10>>}

\* what the match_captures rpc may answer: rows with a similarity
MatchCaptures ==
    UNION {[1..n -> [id : {CaptureId, "c2", "c3"}, similarity : Similarities]] :
             n \in 0..MaxMatches}

\* the rows of S as a list, newest first: order("created_at", descending)
RECURSIVE NewestFirst(_)
NewestFirst(S) ==
    IF S = {} THEN <<>>
    ELSE LET m == CHOOSE x \in S : \A y \in S : x.created_at >= y.created_at
         IN  <<m>> \o NewestFirst(S \ {m})

\* mutant of FullTextSelect: the status filter is missing
FullTextSelectAnyStatus(matching, userId) ==
    NewestFirst({[id |-> row.id, created_at |-> row.created_at] :
                   row \in {t \in Table : /\ t.id \in matching
                                          /\ t.user_id = userId}})

\* fullTextSearch lines 506-514: the rows the select answers with when the
\* rows whose search_vector matches the query are those of `matching`
FullTextSelect(matching, userId) ==
    NewestFirst({[id |-> row.id, created_at |-> row.created_at] :
                   row \in {t \in Table : /\ t.id \in matching
                                          /\ t.user_id = userId
                                          /\ t.processing_status = "completed"}})

\* parseInt on the limits of the model; the empty set is NaN
DefaultLimit == 10
ParseInt(limit) ==
    IF limit = NULL THEN {DefaultLimit}
    ELSE IF limit = "1" THEN {1}
    ELSE IF limit = "3" THEN {3}
    ELSE IF limit = "-3" THEN {-3}
    ELSE {}

\* Math.ceil(n / 2)
CeilHalf(n) == {(x + 1) \div 2 : x \in n}

\* Array.prototype.slice(0, limit)
Slice(list, limit) ==
    IF limit = {} THEN <<>>
    ELSE LET l == CHOOSE x \in limit : TRUE
             end == IF l >= 0 THEN Min(l, Len(list)) ELSE Max(Len(list) + l, 0)
         IN  SubSeq(list, 1, end)

\* mutant of PositionalScore: the rank is counted from one
PositionalScoreOneBased(index, fullTextLimit) ==
    IF fullTextLimit > 0 THEN <<fullTextLimit - index - 1, fullTextLimit>>
    ELSE <<index + 1 - fullTextLimit, 0 - fullTextLimit>>

\* 1 - index / fullTextLimit
PositionalScore(index, fullTextLimit) ==
    IF fullTextLimit > 0 THEN <<fullTextLimit - index, fullTextLimit>>
    ELSE <<index - fullTextLimit, 0 - fullTextLimit>>

\* Map.prototype.has / Map.prototype.set on a map kept as the list of its
\* values in insertion order
MapHas(map, id) == \E i \in 1..Len(map) : map[i].id = id

\* mutant of MapSet: an entry is added even when its id has one
MapSetAppends(map, entry) == Append(map, entry)

\* Map.prototype.set: the entry of an id is replaced in place
MapSet(map, entry) ==
    IF MapHas(map, entry.id)
    THEN [i \in 1..Len(map) |-> IF map[i].id = entry.id THEN entry ELSE map[i]]
    ELSE Append(map, entry)

\* mutant of SemanticEntry: the entry is scored by its position
SemanticEntryPositional(result, index) ==
    [searchType |-> "semantic",
     relevanceScore |-> PositionalScore(index, MaxMatches)] @@ result

\* hybridSearch lines 540-544: the entry of a semantic result
SemanticEntry(result, index) ==
    [searchType |-> "semantic", relevanceScore |-> result.similarity] @@ result

\* mutant of FullTextEntry: the score is the bare position
FullTextEntryUnscaled(result, index, fullTextLimit) ==
    [searchType |-> "fulltext", relevanceScore |-> <<1 - index, 1>>] @@ result

\* hybridSearch lines 549-553: the entry of a full-text result
FullTextEntry(result, index, fullTextLimit) ==
    [searchType |-> "fulltext",
     relevanceScore |-> PositionalScore(index, fullTextLimit)] @@ result

\* hybridSearch lines 539-545: semanticResults.forEach
RECURSIVE AddSemantic(_, _, _)
AddSemantic(map, results, i) ==
    IF i > Len(results) THEN map
    ELSE AddSemantic(MapSet(map, SemanticEntry(results[i], i - 1)), results, i + 1)

\* mutant of AddFullText: a full-text result replaces the entry of its id
RECURSIVE AddFullTextOverwrites(_, _, _, _)
AddFullTextOverwrites(map, results, fullTextLimit, i) ==
    IF i > Len(results) THEN map
    ELSE AddFullTextOverwrites(
             MapSet(map, FullTextEntry(results[i], i - 1, fullTextLimit)),
             results, fullTextLimit, i + 1)

\* hybridSearch lines 547-555: the forEach over the truncated full-text list
RECURSIVE AddFullText(_, _, _, _)
AddFullText(map, results, fullTextLimit, i) ==
    IF i > Len(results) THEN map
    ELSE AddFullText(
             IF MapHas(map, results[i].id) THEN map
             ELSE MapSet(map, FullTextEntry(results[i], i - 1, fullTextLimit)),
             results, fullTextLimit, i + 1)

\* mutant of SortByRelevance: the entries stay in insertion order
SortByRelevanceSkipped(list) == list

\* hybridSearch lines 557-559: the stable sort on b.relevanceScore -
\* a.relevanceScore
RECURSIVE SortByRelevance(_)
SortByRelevance(list) ==
    IF list = <<>> THEN <<>>
    ELSE LET sorted == SortByRelevance(SubSeq(list, 1, Len(list) - 1))
             e == list[Len(list)]
             before == {i \in 1..Len(sorted) :
                          \A j \in 1..i :
                             FracLeq(e.relevanceScore, sorted[j].relevanceScore)}
             k == Cardinality(before)
         IN  SubSeq(sorted, 1, k) \o <<e>> \o SubSeq(sorted, k + 1, Len(sorted))

\* hybridSearch lines 536-559 once both lookups have returned
HybridMerge(semanticResults, fullTextResults, fullTextLimit) ==
    LET truncated == Slice(fullTextResults, fullTextLimit)
        limit == IF fullTextLimit = {} THEN 0
                 ELSE CHOOSE x \in fullTextLimit : TRUE
    IN  SortByRelevance(
            AddFullText(AddSemantic(<<>>, semanticResults, 1),
                        truncated, limit, 1))

\* ------------------------------------------------- the search handler

\* mutant of Mode: a request without a type is a semantic search
ModeSemanticDefault(type) ==
    IF type = "fulltext" THEN type
    ELSE IF type = "hybrid" THEN type
    ELSE "semantic"

\* the switch of the handler on type (line 39)
Mode(type) == IF type \in {"semantic", "fulltext"} THEN type ELSE "hybrid"

\* `type = "hybrid"` in the destructuring of req.query (line 23)
TypeOrDefault(type) == IF type = NULL THEN "hybrid" ELSE type

\* the errors the search functions throw: prefixes and wrapped message
NoTextError == <<"No text provided for embedding generation">>
EmbeddingError == <<"Embedding generation failed", OpenAIMessage>>
SemanticFailed(e) == <<"Semantic search failed">> \o e
FullTextFailed(e) == <<"Full-text search failed">> \o e
HybridFailed(e) == <<"Hybrid search failed">> \o e

\* how an awaited search function stands: pending, resolved or rejected
Pending == [state |-> "pending"]
Resolved(results) == [state |-> "resolved", results |-> results]
Rejected(e) == [state |-> "rejected", error |-> e]

\* the promise of a lookup the handler awaits directly
LookupOutcome(lookup) ==
    IF lookup.pc = "ok" THEN Resolved(lookup.data)
    ELSE IF lookup.pc = "err" THEN Rejected(lookup.error)
    ELSE Pending

\* mutant of HybridOutcome: a failed lookup is replaced by no results
HybridOutcomeFallback(sem, ftx, settled, fullTextLimit) ==
    IF sem.pc \in {"ok", "err"} /\ ftx.pc \in {"ok", "err"}
    THEN Resolved(HybridMerge(IF sem.pc = "ok" THEN sem.data ELSE <<>>,
                              IF ftx.pc = "ok" THEN ftx.data ELSE <<>>,
                              fullTextLimit))
    ELSE Pending

\* hybridSearch lines 530-562 when the lookup `settled` has just settled:
\* Promise.all rejects with the first rejection and resolves when both
\* lookups have resolved
HybridOutcome(sem, ftx, settled, fullTextLimit) ==
    LET s == IF settled = "semantic" THEN sem ELSE ftx
    IN  IF s.pc = "err" THEN Rejected(HybridFailed(s.error))
        ELSE IF sem.pc = "ok" /\ ftx.pc = "ok"
        THEN Resolved(HybridMerge(sem.data, ftx.data, fullTextLimit))
        ELSE Pending

\* the search function the handler awaits, after `settled` has settled
Awaited(q, sem, ftx, settled) ==
    IF Mode(q.type) = "semantic" THEN LookupOutcome(sem)
    ELSE IF Mode(q.type) = "fulltext" THEN LookupOutcome(ftx)
    ELSE HybridOutcome(sem, ftx, settled, CeilHalf(ParseInt(q.limit)))

\* handler lines 62-74: the answer once the awaited function has settled
Answer(q, outcome) ==
    IF outcome.state = "resolved"
    THEN [status |-> 200, success |-> TRUE, query |-> q.q,
          type |-> TypeOrDefault(q.type), results |-> outcome.results,
          count |-> Len(outcome.results)]
    ELSE [status |-> 500, error |-> "Search failed", details |-> outcome.error]

\* the handler goes on after the lookup `settled` has settled, unless it
\* has answered already
Continue(q, sem, ftx, settled) ==
    LET outcome == Awaited(q, sem, ftx, settled)
    IN  IF spc = "done" THEN UNCHANGED <<spc, sres>>
        ELSE /\ spc' = IF outcome.state = "pending" THEN "await" ELSE "done"
             /\ sres' = IF outcome.state = "pending" THEN sres
                        ELSE Answer(q, outcome)

\* a lookup that settles after the handler has answered is discarded
Settle(lookup) == IF spc = "done" THEN [pc |-> "discarded"] ELSE lookup

\* what openai.embeddings.create can answer: a response with the vector, or
\* a rejection with the service's message
EmbeddingAnswers ==
    {[ok |-> TRUE, embedding |-> Vector],
     [ok |-> FALSE, message |-> OpenAIMessage]}

\* mutant of EmbeddingOutcome: a failure of the service is covered up with
\* a zero vector
EmbeddingOutcomeFallback(answer) ==
    IF answer.ok THEN [returned |-> answer.embedding]
    ELSE [returned |-> "zero"]

\* generateEmbedding lines 305-314: what it returns or throws once the
\* service has answered
EmbeddingOutcome(answer) ==
    IF answer.ok THEN [returned |-> answer.embedding]
    ELSE [thrown |-> <<"Embedding generation failed", answer.message>>]

\* semanticSearch lines 487-488 and generateEmbedding lines 300-309: the
\* lookup up to its first await
StartSemantic(q) ==
    IF q = " "
    THEN [pc |-> "err", error |-> SemanticFailed(NoTextError)]
    ELSE [pc |-> "embed"]

\* mutant of SearchRejection: a missing user id is let through
SearchRejectionNoUserCheck(m, q, u) ==
    IF m # "GET" THEN [status |-> 405, error |-> "Method not allowed"]
    ELSE IF q \in {NULL, ""}
    THEN [status |-> 400, error |-> "Query parameter is required"]
    ELSE NoRes

\* handler lines 16-35: the answer that rejects the request, if any
SearchRejection(m, q, u) ==
    IF m # "GET" THEN [status |-> 405, error |-> "Method not allowed"]
    ELSE IF q \in {NULL, ""}
    THEN [status |-> 400, error |-> "Query parameter is required"]
    ELSE IF u = NULL
    THEN [status |-> 400, error |-> "User ID is required"]
    ELSE NoRes

\* handler lines 39-60: the search function the switch calls
Invoked(mode) ==
    IF mode = "semantic" THEN {"semanticSearch"}
    ELSE IF mode = "fulltext" THEN {"fullTextSearch"}
    ELSE {"hybridSearch"}

\* handler lines 16-60: validation and the call of the search function,
\* which runs to the first await of each lookup it starts
SearchValidate ==
    /\ spc = "idle"
    /\ \E m \in Methods, q \in Queries, t \in Types, l \in Limits,
          u \in QueryUserIds :
         LET rq == [method |-> m, q |-> q, type |-> t, limit |-> l,
                    userId |-> u]
             sem == IF Mode(t) = "fulltext" THEN NoLookup ELSE StartSemantic(q)
             ftx == IF Mode(t) = "semantic" THEN NoLookup
                    ELSE [pc |-> "select"]
         IN  /\ query' = rq
             /\ IF SearchRejection(m, q, u) # NoRes
                THEN /\ sres' = SearchRejection(m, q, u)
                     /\ spc' = "done"
                     /\ UNCHANGED <<semantic, fulltext, calls>>
                ELSE /\ semantic' = sem
                     /\ fulltext' = ftx
                     /\ calls' = [invoked |-> Invoked(Mode(t)),
                                  embedding |-> IF sem.pc = "embed" THEN 1 ELSE 0,
                                  rpc |-> 0,
                                  select |-> IF ftx.pc = "select" THEN 1 ELSE 0,
                                  created |-> "none"]
                     /\ Continue(rq, sem, ftx, "semantic")
    /\ UNCHANGED <<processing, batch, library>>

\* semanticSearch lines 487-495: generateEmbedding answers; the rpc is
\* issued with the vector
SemanticEmbedding ==
    /\ semantic.pc = "embed"
    /\ \E answer \in EmbeddingAnswers :
         LET outcome == EmbeddingOutcome(answer)
             sem == IF "returned" \in DOMAIN outcome
                    THEN [pc |-> "rpc", query_embedding |-> outcome.returned]
                    ELSE Settle([pc |-> "err",
                                 error |-> SemanticFailed(outcome.thrown)])
         IN  /\ semantic' = sem
             /\ calls' = [calls EXCEPT
                    !.rpc = IF sem.pc = "rpc" THEN @ + 1 ELSE @,
                    !.created = IF answer.ok THEN answer.embedding
                                ELSE "throw"]
             /\ Continue(query, sem, fulltext, "semantic")
    /\ UNCHANGED <<processing, batch, library, query, fulltext>>

\* semanticSearch lines 490-501: match_captures answers
SemanticRpc ==
    /\ semantic.pc = "rpc"
    /\ \E ok \in BOOLEAN, data \in MatchCaptures :
         LET sem == Settle(IF ok THEN [pc |-> "ok", data |-> data]
                           ELSE [pc |-> "err",
                                 error |-> SemanticFailed(<<StorageMessage>>)])
         IN  /\ ok \/ data = <<>>
             /\ semantic' = sem
             /\ Continue(query, sem, fulltext, "semantic")
    /\ UNCHANGED <<processing, batch, library, query, fulltext, calls>>

\* fullTextSearch lines 505-520: the select answers
FullTextAnswer ==
    /\ fulltext.pc = "select"
    /\ \E ok \in BOOLEAN, matching \in SUBSET TableIds :
         LET ftx == Settle(IF ok
                           THEN [pc |-> "ok",
                                 data |-> FullTextSelect(matching, query.userId)]
                           ELSE [pc |-> "err",
                                 error |-> FullTextFailed(<<StorageMessage>>)])
         IN  /\ ok \/ matching = {}
             /\ fulltext' = ftx
             /\ Continue(query, semantic, ftx, "fulltext")
    /\ UNCHANGED <<processing, batch, library, query, semantic, calls>>

\* the states the capture being processed can be in when a search arrives
SearchedCaptures ==
    LET row == NewCapture(Kind("image", "url", NoteDoctor, <<"health">>))
        info == extractTemporalInfo(AllText(NoteDoctor, "Invoice"), TRUE)
    IN  {row,
         ApplyUpdate(row, ProcessingUpdate),
         ApplyUpdate(row, CompletedUpdate("Invoice", Vector, info)),
         ApplyUpdate(row, FailedUpdate)}

InitSearch ==
    /\ captures \in SearchedCaptures
    /\ InitProcessing
    /\ InitSearching
    /\ InitBatching
    /\ InitLibrary

NextSearch ==
    \/ SearchValidate
    \/ SemanticEmbedding
    \/ SemanticRpc
    \/ FullTextAnswer

SpecSearch == InitSearch /\ [][NextSearch]_vars

\* ============================================================= the batch
\* processAllPendingCaptures and processCaptureAPI of lib/api.js

\* ---------------------------------------------------------------- bounds
\* number of pending captures the select of the batch may return
MaxBatch == 3

\* the pending image captures of the user
PendingIds == {"c" \o ToString(i) : i \in 1..MaxBatch}

\* what the select may answer: the pending captures in any order, each once
Selections ==
    {sel \in UNION {[1..n -> PendingIds] : n \in 0..MaxBatch} :
        \A i, j \in 1..Len(sel) : sel[i] = sel[j] => i = j}

\* what the process-capture handler may answer to a batch request
ProcessStatuses == {200, 202, 404, 500}

\* data.error of the answers that are not ok
ProcessError(status) ==
    IF status = 404 THEN "Capture not found" ELSE "Processing failed"

NetworkMessage == "fetch failed"

\* processCaptureAPI lines 15-22: the promise of a request whose response
\* has this status
ApiOutcome(status) ==
    IF status \in {200, 202}
    THEN [status |-> "fulfilled"]
    ELSE [status |-> "rejected", reason |-> ProcessError(status)]

IsSettled(r) == r.status \in {"fulfilled", "rejected"}

\* mutant of BatchOutcome: the batch stops at the first rejection
BatchOutcomeAll(rs) ==
    IF \E i \in 1..Len(rs) : rs[i].status = "rejected"
    THEN Rejected(rs[CHOOSE i \in 1..Len(rs) : rs[i].status = "rejected"].reason)
    ELSE IF \A i \in 1..Len(rs) : IsSettled(rs[i]) THEN Resolved(rs)
    ELSE Pending

\* processAllPendingCaptures lines 84-86: Promise.allSettled resolves once
\* every request has settled and never rejects
BatchOutcome(rs) ==
    IF \A i \in 1..Len(rs) : IsSettled(rs[i]) THEN Resolved(rs) ELSE Pending

\* the number of requests with this status
CountStatus(rs, status) ==
    Cardinality({i \in 1..Len(rs) : rs[i].status = status})

\* processAllPendingCaptures lines 88-100: the report
BatchReport(selected, rs) ==
    [processed |-> CountStatus(rs, "fulfilled"),
     failed |-> CountStatus(rs, "rejected"),
     total |-> Len(selected),
     results |-> [i \in 1..Len(rs) |->
                     [captureId |-> selected[i],
                      success |-> rs[i].status = "fulfilled",
                      error |-> IF rs[i].status = "rejected" THEN rs[i].reason
                                ELSE NULL]]]

\* the batch goes on when a request has settled
BatchContinue(rs) ==
    LET outcome == BatchOutcome(rs)
    IN  /\ bpc' = IF outcome.state = "pending" THEN "settling" ELSE "done"
        /\ report' = IF outcome.state = "resolved"
                     THEN BatchReport(pendingCaptures, outcome.results)
                     ELSE IF outcome.state = "rejected"
                     THEN [thrown |-> outcome.error]
                     ELSE report

\* processAllPendingCaptures lines 67-75: the select is issued
BatchStart ==
    /\ bpc = "idle"
    /\ bpc' = "select"
    /\ UNCHANGED <<processing, search, library, pendingCaptures, settlements, report>>

\* processAllPendingCaptures lines 70-86: the select answers; one request
\* per selected capture is issued
BatchSelect ==
    /\ bpc = "select"
    /\ \E ok \in BOOLEAN, sel \in Selections :
         /\ ok \/ sel = <<>>
         /\ IF ~ok
            THEN /\ report' = [thrown |-> StorageMessage]
                 /\ bpc' = "done"
                 /\ UNCHANGED <<pendingCaptures, settlements>>
            ELSE IF sel = <<>>
            THEN /\ report' = [processed |-> 0,
                               message |-> "No pending captures to process"]
                 /\ bpc' = "done"
                 /\ UNCHANGED <<pendingCaptures, settlements>>
            ELSE /\ pendingCaptures' = sel
                 /\ settlements' = [i \in 1..Len(sel) |-> [status |-> "fetch"]]
                 /\ bpc' = "settling"
                 /\ report' = report
    /\ UNCHANGED <<processing, search, library>>

\* processCaptureAPI lines 7-15 and 23-27: the fetch of request i answers
\* or fails
BatchFetch(i) ==
    /\ bpc = "settling"
    /\ i \in 1..Len(settlements)
    /\ settlements[i].status = "fetch"
    /\ \E ok \in BOOLEAN, status \in ProcessStatuses :
         LET rs == [settlements EXCEPT ![i] =
                       IF ok THEN [status |-> "json", response |-> status]
                       ELSE [status |-> "rejected", reason |-> NetworkMessage]]
         IN  /\ ok \/ status = 200
             /\ settlements' = rs
             /\ BatchContinue(rs)
    /\ UNCHANGED <<processing, search, library, pendingCaptures>>

\* processCaptureAPI lines 15-27: the body of the response of request i
\* is read
BatchJson(i) ==
    /\ bpc = "settling"
    /\ i \in 1..Len(settlements)
    /\ settlements[i].status = "json"
    /\ LET rs == [settlements EXCEPT ![i] = ApiOutcome(settlements[i].response)]
       IN  /\ settlements' = rs
           /\ BatchContinue(rs)
    /\ UNCHANGED <<processing, search, library, pendingCaptures>>

InitBatch ==
    /\ captures = NewCapture(Kind("image", "url", NULL, <<>>))
    /\ InitProcessing
    /\ InitSearching
    /\ InitBatching
    /\ InitLibrary

NextBatch ==
    \/ BatchStart
    \/ BatchSelect
    \/ \E i \in 1..MaxBatch : BatchFetch(i) \/ BatchJson(i)

SpecBatch == InitBatch /\ [][NextBatch]_vars

\* ---------------------------------------------------------------- bounds

\* the longest text given to the sanitizer
MaxLen == 8

\* ----------------------------------------- cleanExtractedText, by steps

\* texts are sequences of characters; the classes of the regular
\* expressions: \d, \s, [A-Z] and \w
DigitChars == {"0", "1", "2", "3", "4", "5", "6", "7", "8", "9"}
SpaceChars == {" ", "\t", "\n"}
UpperChars == {"A", "B", "C", "D", "E", "F", "G", "H", "I", "J", "K", "L",
               "M", "N", "O", "P", "Q", "R", "S", "T", "U", "V", "W", "X",
               "Y", "Z"}
WordChars ==
    DigitChars \cup UpperChars \cup
    {"a", "b", "c", "d", "e", "f", "g", "h", "i", "j", "k", "l", "m", "n",
     "o", "p", "q", "r", "s", "t", "u", "v", "w", "x", "y", "z", "_"}

\* the texts under test: no keyword, no artifact name and no slash can be
\* spelled with these characters, so of the replacements only `at \w+`, the
\* number pairs, the years and the whitespace clean-up can match
Texts == UNION {[1..n -> {"a", "t", "1", " "}] : n \in 0..MaxLen}

\* where a greedy run of characters of a class, started at i, stops
Run(s, i, class) ==
    CHOOSE j \in i..(Len(s) + 1) :
        /\ \A k \in i..(j - 1) : s[k] \in class
        /\ j = Len(s) + 1 \/ s[j] \notin class

\* \b in front of position p
Boundary(s, p) ==
    (p > 1 /\ s[p - 1] \in WordChars) # (p <= Len(s) /\ s[p] \in WordChars)

\* (?=\n\n|\n[A-Z]|$) in front of position p
Lookahead(s, p) ==
    \/ p = Len(s) + 1
    \/ /\ p < Len(s)
       /\ s[p] = "\n"
       /\ s[p + 1] \in {"\n"} \cup UpperChars

\* String.prototype.replace with a /g pattern: end[i] is the position
\* after the match that starts at i (0 if none starts there) and new[i]
\* what replaces that match
ReplaceAll(s, end, new) ==
    LET out[i \in 1..(Len(s) + 1)] ==
            IF i > Len(s) THEN <<>>
            ELSE IF end[i] > i THEN new[i] \o out[end[i]]
            ELSE <<s[i]>> \o out[i + 1]
    IN  out[1]

\* /at \w+.*?(?=\n\n|\n[A-Z]|$)/gs
EndStackFrame(s, i) ==
    IF /\ i + 3 <= Len(s)
       /\ SubSeq(s, i, i + 2) = <<"a", "t", " ">>
       /\ s[i + 3] \in WordChars
    THEN CHOOSE p \in (i + 4)..(Len(s) + 1) :
            /\ Lookahead(s, p)
            /\ \A q \in (i + 4)..(p - 1) : ~Lookahead(s, q)
    ELSE 0

\* /\d+\s+\d+\s+/g
EndNumberPair(s, i) ==
    LET a == Run(s, i, DigitChars)
        b == Run(s, a, SpaceChars)
        c == Run(s, b, DigitChars)
        d == Run(s, c, SpaceChars)
    IN  IF a > i /\ b > a /\ c > b /\ d > c THEN d ELSE 0

\* /\b\d{1,3}\s+\d{1,3}\b/g
EndShortPair(s, i) ==
    LET a == Run(s, i, DigitChars)
        b == Run(s, a, SpaceChars)
        c == Run(s, b, DigitChars)
    IN  IF /\ Boundary(s, i)
           /\ a > i /\ a - i <= 3
           /\ b > a
           /\ c > b /\ c - b <= 3
           /\ Boundary(s, c)
        THEN c ELSE 0

\* /\b\d{4}\b/g
EndYear(s, i) ==
    LET a == Run(s, i, DigitChars)
    IN  IF Boundary(s, i) /\ a - i = 4 /\ Boundary(s, a) THEN a ELSE 0

\* parseInt of four digits
DigitValue(c) == CHOOSE v \in 0..9 : ToString(v) = c
YearValue(match) ==
    ((DigitValue(match[1]) * 10 + DigitValue(match[2])) * 10
        + DigitValue(match[3])) * 10 + DigitValue(match[4])

\* year >= 1900 && year <= 2100 ? match : ""
FirstYear == 1900
LastYear == 2100
KeepYear(match) ==
    IF YearValue(match) >= FirstYear /\ YearValue(match) <= LastYear
    THEN match ELSE <<>>

\* /\n{3,}/g
EndNewlines(s, i) ==
    LET a == Run(s, i, {"\n"}) IN IF a - i >= 3 THEN a ELSE 0

\* /[ \t]+$/gm
EndTrailing(s, i) ==
    LET a == Run(s, i, {" ", "\t"})
    IN  IF a > i /\ (a = Len(s) + 1 \/ s[a] = "\n") THEN a ELSE 0

\* /^[ \t]+$/gm
EndBlankLine(s, i) ==
    IF i = 1 \/ s[i - 1] = "\n" THEN EndTrailing(s, i) ELSE 0

\* /\n\s*\n\s*\n/g
EndEmptyLines(s, i) ==
    LET a == Run(s, i, SpaceChars)
        newlines == {k \in i..(a - 1) : s[k] = "\n"}
    IN  IF s[i] = "\n" /\ Cardinality(newlines) >= 3
        THEN 1 + CHOOSE k \in newlines : \A l \in newlines : l <= k
        ELSE 0

\* String.prototype.trim
Trim(s) ==
    LET kept == {k \in 1..Len(s) : s[k] \notin SpaceChars}
    IN  IF kept = {} THEN <<>>
        ELSE SubSeq(s, CHOOSE k \in kept : \A l \in kept : k <= l,
                       CHOOSE k \in kept : \A l \in kept : l <= k)

\* cleanExtractedText on a text of characters: the replacements in the
\* order of the source, then trim. Each step maps the one text the step
\* before it produced, so every intermediate text is computed once.
cleanExtractedChars(rawText) ==
    LET Gone(s) == [i \in DOMAIN s |-> <<>>]
        Blank(s) == [i \in DOMAIN s |-> <<"\n", "\n">>]
        Year(s) == [i \in DOMAIN s |->
                      IF EndYear(s, i) > i
                      THEN KeepYear(SubSeq(s, i, EndYear(s, i) - 1))
                      ELSE <<>>]
        Frames(s) == ReplaceAll(s, [i \in DOMAIN s |-> EndStackFrame(s, i)], Gone(s))
        Pairs(s) == ReplaceAll(s, [i \in DOMAIN s |-> EndNumberPair(s, i)], Gone(s))
        Shorts(s) == ReplaceAll(s, [i \in DOMAIN s |-> EndShortPair(s, i)], Gone(s))
        Years(s) == ReplaceAll(s, [i \in DOMAIN s |-> EndYear(s, i)], Year(s))
        Newlines(s) == ReplaceAll(s, [i \in DOMAIN s |-> EndNewlines(s, i)], Blank(s))
        Trailing(s) == ReplaceAll(s, [i \in DOMAIN s |-> EndTrailing(s, i)], Gone(s))
        BlankLines(s) == ReplaceAll(s, [i \in DOMAIN s |-> EndBlankLine(s, i)], Gone(s))
        EmptyLines(s) == ReplaceAll(s, [i \in DOMAIN s |-> EndEmptyLines(s, i)], Blank(s))
        s1 == {Frames(s0) : s0 \in {rawText}}
        s2 == {Pairs(s) : s \in s1}
        s3 == {Shorts(s) : s \in s2}
        s4 == {Years(s) : s \in s3}
        s5 == {Newlines(s) : s \in s4}
        s6 == {Trailing(s) : s \in s5}
        s7 == {BlankLines(s) : s \in s6}
        s8 == {EmptyLines(s) : s \in s7}
    IN  IF rawText = <<>> THEN <<>>
        ELSE CHOOSE cleaned \in {Trim(s) : s \in s8} : TRUE

\* one more application of the sanitizer: to the given text first, then to
\* what it returned
Sanitize ==
    /\ applied < 2
    /\ applied' = applied + 1
    /\ given' = IF applied = 0 THEN given ELSE returned
    /\ returned' = cleanExtractedChars(given')
    /\ UNCHANGED <<processing, search, batch>>

InitClean ==
    /\ captures = NewCapture(Kind("image", "url", NULL, <<>>))
    /\ InitProcessing
    /\ InitSearching
    /\ InitBatching
    /\ applied = 0
    /\ given \in Texts
    /\ returned = <<>>

SpecClean == InitClean /\ [][Sanitize]_vars

\* ---------------------------------------------------------------- bounds

\* the most tags, and the most temporal context phrases, of a capture
MaxTags == 2

\* ----------------------------------------------- combineTextForEmbedding

\* an argument that may be null or undefined: no element, or the value as
\* the only element
Absent == <<>>

\* Array.prototype.join
RECURSIVE Join(_, _)
Join(list, separator) ==
    IF list = <<>> THEN <<>>
    ELSE IF Len(list) = 1 THEN list[1]
    ELSE list[1] \o separator \o Join(Tail(list), separator)

NoteLabel == <<"N", "o", "t", "e", ":", " ">>
ContentLabel == <<"C", "o", "n", "t", "e", "n", "t", ":", " ">>
TagsLabel == <<"T", "a", "g", "s", ":", " ">>
TemporalLabel == <<"T", "e", "m", "p", "o", "r", "a", "l", " ",
                   "c", "o", "n", "t", "e", "x", "t", ":", " ">>

\* combineTextForEmbedding: tags is the array, temporalContext the matched
\* texts of the map's values in iteration order
combineTextForEmbedding(note, text, tags, temporalContext) ==
    LET p1 == IF note # Absent /\ note[1] # <<>> /\ Trim(note[1]) # <<>>
              THEN <<NoteLabel \o Trim(note[1])>> ELSE <<>>
        p2 == IF text # Absent /\ text[1] # <<>> /\ Trim(text[1]) # <<>>
              THEN <<ContentLabel \o Trim(text[1])>> ELSE <<>>
        p3 == IF tags # Absent /\ Len(tags[1]) > 0
              THEN <<TagsLabel \o Join(tags[1], <<",", " ">>)>> ELSE <<>>
        p4 == IF temporalContext # Absent /\ Len(temporalContext[1]) > 0
              THEN <<TemporalLabel \o Join(temporalContext[1], <<" ">>)>>
              ELSE <<>>
    IN  Join(p1 \o p2 \o p3 \o p4, <<"\n", "\n">>)

\* the arguments under test: strings with and without blanks around them,
\* tag arrays and context maps of up to MaxTags entries
Strings == {Absent, <<<<>>>>, <<<<" ">>>>, <<<<"m">>>>,
            <<<<" ", "m", "o", " ">>>>}
TagArrays == {Absent} \cup
    {<<t>> : t \in UNION {[1..n -> {<<>>, <<"a">>}] : n \in 0..MaxTags}}
ContextMaps == {Absent} \cup
    {<<t>> : t \in UNION {[1..n -> {<<"d">>}] : n \in 0..MaxTags}}

\* combineTextForEmbedding is called with the given arguments
Combine ==
    /\ applied = 0
    /\ applied' = 1
    /\ returned' = combineTextForEmbedding(given.note, given.extractedText,
                                           given.tags, given.temporalContext)
    /\ UNCHANGED <<processing, search, batch, given>>

InitCombine ==
    /\ captures = NewCapture(Kind("image", "url", NULL, <<>>))
    /\ InitProcessing
    /\ InitSearching
    /\ InitBatching
    /\ applied = 0
    /\ given \in [note : Strings, extractedText : Strings,
                  tags : TagArrays, temporalContext : ContextMaps]
    /\ returned = <<>>

SpecCombine == InitCombine /\ [][Combine]_vars

\* ---------------------------------------------------- extractTemporalInfo

\* what chrono.parse(text)[0] can be: no match, or a match with any
\* combination of the features calculateConfidence looks at
ChronoMatches ==
    {NoMatch} \cup
    [found : {TRUE}, text : {"match"}, hasYear : BOOLEAN, hasMonth : BOOLEAN,
     hasHour : BOOLEAN, short : BOOLEAN, relative : BOOLEAN]

\* the keys extractTemporalContext can find next to the match
Contexts == {{}, {"tomorrow"}}

\* extractTemporalInfo is called on a text with the given matches
Extract ==
    /\ applied = 0
    /\ applied' = 1
    /\ returned' = IF given.parserOk
                   THEN TemporalResults(given.match, given.context)
                   ELSE NullInfo
    /\ UNCHANGED <<processing, search, batch, given>>

InitTemporal ==
    /\ captures = NewCapture(Kind("image", "url", NULL, <<>>))
    /\ InitProcessing
    /\ InitSearching
    /\ InitBatching
    /\ applied = 0
    /\ given \in [match : ChronoMatches, context : Contexts,
                  parserOk : BOOLEAN]
    /\ returned = <<>>

SpecTemporal == InitTemporal /\ [][Extract]_vars

\* ------------------------------------------------------------- vocabulary
\* of the properties

\* the attempt of r has ended: processCapture returned or rethrew and the
\* handler has not answered yet
Ended(r) == pc[r] \in {"return", "rethrow"}

\* storage accepted r's 'processing' update
WroteProcessing(r) ==
    /\ Len(writes[r]) >= 1
    /\ writes[r][1].status = "processing"
    /\ writes[r][1].ok

\* storage rejected r's 'processing' update
ProcessingRejected(r) ==
    /\ Len(writes[r]) >= 1
    /\ writes[r][1].status = "processing"
    /\ ~writes[r][1].ok

Last(log) == log[Len(log)]

\* the accepted terminal updates of a log
AcceptedTerminal(log) ==
    {i \in 1..Len(log) : log[i].ok /\ log[i].status \in {"completed", "failed"}}

\* r is between its accepted 'processing' update and its terminal update
Active(r) ==
    /\ WroteProcessing(r)
    /\ pc[r] \in {"ocr", "embed", "final", "catch"}

\* the step is r's select answering with the row found
Fetched(r) ==
    /\ pc[r] = "fetch"
    /\ pc'[r] # "fetch"
    /\ res'[r].status # 404

\* the fields of the row that processing derives
DerivedFields ==
    {"extracted_text", "embedding", "extracted_date", "extracted_time",
     "extracted_datetime", "date_confidence", "temporal_context"}

\* ------------------------------------------------------------------ C1

\* C1 as stated: every attempt that wrote 'processing' has moved the
\* persisted status to 'completed' or 'failed' when it ends, whatever the
\* OCR, embedding and storage calls answered.
C1_AsStated ==
    \A r \in Requests :
        Ended(r) /\ WroteProcessing(r) =>
            captures.processing_status \in {"completed", "failed"}

\* C1 amended: the status becomes 'processing' only by processCapture's
\* first update; an attempt that wrote 'processing' ends after a terminal
\* update ('completed' or 'failed') as its last update, at most one
\* terminal update is accepted, and the persisted status is that terminal
\* status if storage accepted the last update and still 'processing' if
\* storage rejected it.
C1_TerminalWrite ==
    /\ [](\A r \in Requests :
            Ended(r) /\ WroteProcessing(r) =>
                /\ Last(writes[r]).status \in {"completed", "failed"}
                /\ Cardinality(AcceptedTerminal(writes[r])) <= 1
                /\ Last(writes[r]).ok =>
                       captures.processing_status = Last(writes[r]).status
                /\ ~Last(writes[r]).ok =>
                       captures.processing_status = "processing")
    /\ [][captures'.processing_status = "processing"
            /\ captures.processing_status # "processing"
          => \E r \in Requests : pc[r] = "status" /\ pc'[r] \in {"ocr", "embed", "final"}]_vars

\* an attempt ended with its 'failed' update rejected
C1_Witness ==
    \E r \in Requests :
        /\ pc[r] = "rethrow"
        /\ WroteProcessing(r)
        /\ ~Last(writes[r]).ok
        /\ captures.processing_status = "processing"

\* ------------------------------------------------------------------ C2

\* C2 as stated: at most one attempt is between its 'processing' update
\* and its terminal update, for every interleaving of requests.
C2_AsStated == Cardinality({r \in Requests : Active(r)}) <= 1

\* C2 amended: a request whose select returns the row with status
\* 'processing' does not enter processCapture: it answers 202 and leaves
\* the row and the collaborators untouched. (The guard is this read alone:
\* requests that read before the 'processing' update of another all enter.)
C2_GuardOnRead ==
    [][\A r \in Requests :
          Fetched(r) /\ captures.processing_status = "processing" =>
              /\ pc'[r] = "done"
              /\ res'[r].status = 202
              /\ captures' = captures
              /\ ocrCalls'[r] = 0 /\ embCalls'[r] = 0 /\ writes'[r] = <<>>]_vars

\* a request was answered 202 while another attempt is in progress
C2_Witness ==
    \E r, q \in Requests :
        /\ pc[r] = "done" /\ res[r].status = 202
        /\ Active(q)

\* ------------------------------------------------------------------ C3

\* C3: a request whose select returns the row with status 'completed'
\* answers at once with the stored extracted text and embedding flag,
\* issues no OCR or embedding call and no update, and is finished.
C3_ShortCircuit ==
    [][\A r \in Requests :
          /\ Fetched(r) /\ captures.processing_status = "completed" =>
                /\ pc'[r] = "done"
                /\ res'[r] = [status |-> 200, success |-> TRUE,
                              message |-> "Capture already processed",
                              extractedText |-> captures.extracted_text,
                              hasEmbedding |-> captures.embedding # NULL]
                /\ captures' = captures
                /\ ocrCalls'[r] = 0 /\ embCalls'[r] = 0 /\ writes'[r] = <<>>
          /\ pc[r] = "done" =>
                /\ pc'[r] = "done" /\ res'[r] = res[r]
                /\ ocrCalls'[r] = 0 /\ embCalls'[r] = 0 /\ writes'[r] = <<>>]_vars

\* a request was answered from the stored results of a completed capture
C3_Witness ==
    \E r \in Requests :
        /\ pc[r] = "done"
        /\ res[r].status = 200
        /\ "message" \in DOMAIN res[r]
        /\ res[r].extractedText = "Invoice"
        /\ res[r].hasEmbedding

\* ------------------------------------------------------------------ C4

\* C4: when processCapture returns successfully the persisted status is
\* 'completed', processed_at is set and extracted_text is the string the
\* attempt extracted, the empty string when OCR was skipped or found
\* nothing; it is never null.
C4_Completed ==
    \A r \in Requests :
        pc[r] = "return" =>
            /\ captures.processing_status = "completed"
            /\ captures.processed_at # NULL
            /\ captures.extracted_text # NULL
            /\ captures.extracted_text = extractedText[r]
            /\ captures.extracted_text \in {"", "Invoice"}
            /\ ocrCalls[r] = 0 => captures.extracted_text = ""

\* processCapture returned successfully with no OCR text
C4_Witness ==
    \E r \in Requests :
        /\ pc[r] = "return"
        /\ ocrCalls[r] = 1
        /\ captures.extracted_text = ""

\* ------------------------------------------------------------------ C5

\* C5 as stated: when the OCR call has thrown, the attempt ends with the
\* persisted status 'failed' and extracted_text as it was before the
\* attempt (a capture that is processed has no extracted text yet).
C5_AsStated ==
    \A r \in Requests :
        pc[r] = "rethrow" /\ error[r] = OcrError =>
            /\ captures.processing_status = "failed"
            /\ captures.extracted_text = NULL

\* C5 amended: when the OCR call has thrown, the attempt sends exactly one
\* more update, the 'failed' one, and no step of it changes
\* extracted_text; the persisted status is 'failed' if storage accepted
\* that update and stays 'processing' if storage rejected it.
C5_OcrFailure ==
    /\ [](\A r \in Requests :
            pc[r] = "rethrow" /\ error[r] = OcrError =>
                /\ Len(writes[r]) = 2
                /\ writes[r][1] = [status |-> "processing", ok |-> TRUE]
                /\ writes[r][2].status = "failed"
                /\ captures.processing_status =
                       IF writes[r][2].ok THEN "failed" ELSE "processing"
                /\ captures.extracted_text = NULL)
    /\ [][\A r \in Requests :
            pc[r] \in {"ocr", "catch"} /\ pc'[r] \in {"catch", "rethrow"} =>
                captures'.extracted_text = captures.extracted_text]_vars

\* an attempt whose OCR call threw has marked the capture failed
C5_Witness ==
    \E r \in Requests :
        /\ pc[r] = "rethrow"
        /\ error[r] = OcrError
        /\ captures.processing_status = "failed"
        /\ captures.extracted_text = NULL

\* ------------------------------------------------------------------ C6

\* the step is r's final update answering after r's embedding call threw
FinalAfterEmbeddingFailure(r) ==
    /\ pc[r] = "final" /\ pc'[r] # "final"
    /\ embCalls[r] = 1 /\ embedding[r] = NULL

\* C6 as stated: when embedding generation has thrown after OCR and
\* temporal extraction succeeded, the attempt still ends with the
\* persisted status 'completed', returns success and leaves the embedding
\* field absent.
C6_AsStated ==
    [][\A r \in Requests :
          FinalAfterEmbeddingFailure(r) =>
              /\ pc'[r] = "return"
              /\ captures'.processing_status = "completed"
              /\ captures'.embedding = NULL]_vars

\* C6 amended: a throwing embedding call never fails the attempt: the
\* attempt goes on to its final update without an error and without an
\* embedding; if storage accepts that update the attempt returns success
\* with status 'completed', the embedding field absent and hasEmbedding
\* false; only the rejection of that update makes the attempt fail, with
\* the storage error.
C6_EmbeddingNonFatal ==
    /\ [][\A r \in Requests :
            /\ pc[r] = "embed" /\ pc'[r] # "embed" =>
                  /\ pc'[r] = "final"
                  /\ error'[r] = NoError
                  /\ captures' = captures
            /\ FinalAfterEmbeddingFailure(r) =>
                  /\ pc'[r] \in {"return", "catch"}
                  /\ pc'[r] = "return" =>
                        /\ Last(writes'[r]) = [status |-> "completed", ok |-> TRUE]
                        /\ captures'.processing_status = "completed"
                        /\ captures'.embedding = NULL
                  /\ pc'[r] = "catch" =>
                        /\ error'[r] = FinalUpdateError
                        /\ ~Last(writes'[r]).ok
            /\ pc[r] = "return" /\ pc'[r] # "return"
                  /\ embCalls[r] = 1 /\ embedding[r] = NULL =>
                  /\ res'[r].status = 200
                  /\ res'[r].success
                  /\ ~res'[r].hasEmbedding]_vars

\* an attempt returned success although its embedding call threw
C6_Witness ==
    \E r \in Requests :
        /\ pc[r] = "return"
        /\ embCalls[r] = 1
        /\ embedding[r] = NULL
        /\ extractedText[r] = "Invoice"
        /\ captures.processing_status = "completed"
        /\ captures.embedding = NULL

\* ------------------------------------------------------------------ C7

\* C7 as stated: when storage rejects the 'processing' update the attempt
\* fails with the status-update error and sends no further update (no
\* 'failed' update), and makes no OCR or embedding call.
C7_AsStated ==
    \A r \in Requests :
        ProcessingRejected(r) =>
            /\ Len(writes[r]) = 1
            /\ ocrCalls[r] = 0
            /\ embCalls[r] = 0
            /\ error[r] = StatusUpdateError

\* C7 amended: when storage rejects the 'processing' update the attempt
\* fails with the status-update error and makes no OCR or embedding call,
\* but the catch block of processCapture still sends the 'failed' update
\* (and only that one) before the error is rethrown.
C7_StatusUpdateFailure ==
    \A r \in Requests :
        ProcessingRejected(r) =>
            /\ pc[r] \in {"catch", "rethrow"}
            /\ error[r] = StatusUpdateError
            /\ ocrCalls[r] = 0
            /\ embCalls[r] = 0
            /\ pc[r] = "catch" => Len(writes[r]) = 1
            /\ pc[r] = "rethrow" =>
                  /\ Len(writes[r]) = 2
                  /\ writes[r][2].status = "failed"

\* the capture was marked failed by an attempt whose 'processing' update
\* was rejected
C7_Witness ==
    \E r \in Requests :
        /\ pc[r] = "rethrow"
        /\ ProcessingRejected(r)
        /\ writes[r][2] = [status |-> "failed", ok |-> TRUE]
        /\ captures.processing_status = "failed"

\* ------------------------------------------------------------------ C8

\* the number of 'failed' updates in a log
FailedWrites(log) == Cardinality({i \in 1..Len(log) : log[i].status = "failed"})

\* C8: an error raised after the 'processing' update (by the OCR call or
\* by the final update) takes the attempt to the catch block, which sends
\* the 'failed' update once, with a processed timestamp, and rethrows the
\* same error; the handler answers 500 with that error's message.
C8_CatchAndRethrow ==
    /\ [](\A r \in Requests :
            pc[r] = "rethrow" /\ WroteProcessing(r) =>
                /\ error[r] \in {OcrError, FinalUpdateError}
                /\ FailedWrites(writes[r]) = 1
                /\ Last(writes[r]).status = "failed")
    /\ [][\A r \in Requests :
            /\ pc[r] \in {"ocr", "final"} /\ error'[r] # NoError =>
                  /\ pc'[r] = "catch"
                  /\ FailedWrites(writes'[r]) = 0
            /\ pc[r] = "catch" /\ pc'[r] # "catch" =>
                  /\ pc'[r] = "rethrow"
                  /\ error'[r] = error[r]
                  /\ Last(writes'[r]).ok =>
                        /\ captures'.processing_status = "failed"
                        /\ captures'.processed_at = Now
            /\ pc[r] = "rethrow" /\ pc'[r] # "rethrow" =>
                  /\ pc'[r] = "done"
                  /\ res'[r] = [status |-> 500, error |-> "Processing failed",
                                details |-> error[r]]]_vars

\* the handler answered 500 with the OCR error and the capture is failed
C8_Witness ==
    \E r \in Requests :
        /\ pc[r] = "done"
        /\ res[r].status = 500
        /\ res[r].details = OcrError
        /\ captures.processing_status = "failed"
        /\ captures.processed_at = Now

\* ------------------------------------------------------------------ C9

\* C9: the derived fields of the row change only in the one step in which
\* an attempt's final update is accepted, which sets the status to
\* 'completed', the extracted text and what the attempt produced; an
\* attempt sends at most one such update, and the catch block's update
\* changes nothing but processing_status and processed_at.
C9_NoHalfWrittenRecord ==
    /\ [][(\E f \in DerivedFields : captures'[f] # captures[f]) =>
            \E r \in Requests :
                /\ pc[r] = "final" /\ pc'[r] = "return"
                /\ captures'.processing_status = "completed"
                /\ captures'.processed_at = Now
                /\ captures'.extracted_text = extractedText[r]
                /\ embedding[r] # NULL => captures'.embedding = embedding[r]
                /\ temporalInfo[r].extractedDate # NULL =>
                      captures'.extracted_date = temporalInfo[r].extractedDate
                /\ temporalInfo[r].extractedTime # NULL =>
                      captures'.extracted_time = temporalInfo[r].extractedTime
                /\ temporalInfo[r].temporalContext # {} =>
                      captures'.temporal_context = temporalInfo[r].temporalContext]_vars
    /\ [][\A r \in Requests :
            pc[r] # "final" /\ pc'[r] # pc[r] =>
                \A f \in DOMAIN captures \ {"processing_status", "processed_at"} :
                    captures'[f] = captures[f]]_vars
    /\ [](\A r \in Requests :
            Cardinality({i \in 1..Len(writes[r]) :
                            writes[r][i].status = "completed"}) <= 1)

\* an attempt that had reached its embedding call failed on its final
\* update: the capture is failed and carries none of the derived fields
C9_Witness ==
    \E r \in Requests :
        /\ pc[r] = "rethrow"
        /\ error[r] = FinalUpdateError
        /\ embCalls[r] = 1
        /\ captures.processing_status = "failed"
        /\ captures.extracted_text = NULL
        /\ captures.embedding = NULL
        /\ captures.extracted_date = NULL
        /\ captures.temporal_context = {}

\* ------------------------------------------------------------------ C10

\* C10: a request that finds the capture 'pending' or 'failed' enters
\* processCapture; its accepted first update makes the status
\* 'processing'; an attempt none of whose external calls failed returns
\* with the status 'completed'; and the status leaves 'failed' only by the
\* first update of a request (nothing retries by itself).
C10_Reentrant ==
    /\ [][\A r \in Requests :
            /\ Fetched(r) /\ captures.processing_status \in {"pending", "failed"} =>
                  /\ pc'[r] = "status"
                  /\ captures' = captures
            /\ pc[r] = "status" /\ pc'[r] \notin {"status", "catch"} =>
                  captures'.processing_status = "processing"]_vars
    /\ [](\A r \in Requests :
            /\ pc[r] = "return" => captures.processing_status = "completed"
            /\ pc[r] = "rethrow" =>
                  \/ error[r] = OcrError
                  \/ \E i \in 1..(Len(writes[r]) - 1) : ~writes[r][i].ok)
    /\ [][captures.processing_status = "failed"
            /\ captures'.processing_status # "failed" =>
                /\ captures'.processing_status = "processing"
                /\ \E r \in Requests :
                      /\ pc[r] = "status" /\ pc'[r] # "status"
                      /\ \E q \in Requests \ {r} : pc[q] = "done"]_vars

\* a capture that one request left failed was completed by a later request
C10_Witness ==
    \E r, q \in Requests :
        /\ pc[q] = "done" /\ res[q].status = 500
        /\ pc[r] = "return"
        /\ captures.processing_status = "completed"

\* ------------------------------------------------------------------ C11

\* the step is r's handler answering with one of its early exits
EarlyExit(r) ==
    /\ pc[r] \in {"idle", "fetch"}
    /\ pc'[r] = "done"
    /\ res'[r].status \in {400, 404, 202}

\* C11: a POST request goes on to the select only with a captureId and a
\* userId, otherwise it is answered 400; a select for a capture that does
\* not exist or has another owner is answered 404; a select that finds the
\* status 'processing' is answered 202; and a request answered 400, 404 or
\* 202 has written no field of the capture and made no OCR or embedding
\* call.
C11_EarlyExits ==
    [][\A r \in Requests :
          /\ pc[r] = "idle" /\ pc'[r] # "idle" =>
                /\ pc'[r] = "fetch" =>
                      body'[r].captureId # NULL /\ body'[r].userId # NULL
                /\ pc'[r] # "fetch" =>
                      pc'[r] = "done" /\ res'[r].status \in {400, 405}
          /\ pc[r] = "fetch" /\ pc'[r] # "fetch"
                /\ (body[r].captureId # captures.id
                       \/ body[r].userId # captures.user_id) =>
                pc'[r] = "done" /\ res'[r].status = 404
          /\ Fetched(r) /\ captures.processing_status = "processing" =>
                /\ res'[r].status = 202
                /\ res'[r].message = "Capture is currently being processed"
          /\ EarlyExit(r) =>
                /\ captures' = captures
                /\ ocrCalls[r] = 0 /\ ocrCalls'[r] = 0
                /\ embCalls[r] = 0 /\ embCalls'[r] = 0
                /\ writes[r] = <<>> /\ writes'[r] = <<>>]_vars

\* a request for a capture that is absent or has another owner was
\* answered 404 while the capture was still pending
C11_Witness ==
    \E r \in Requests :
        /\ pc[r] = "done"
        /\ res[r].status = 404
        /\ res[r].details = "No capture found with the given ID and user ID"
        /\ captures.processing_status = "pending"

\* ------------------------------------------------------------------ C12

\* C12 as stated: an attempt makes an OCR call only for a capture whose
\* media is an image; for every other capture the attempt makes no OCR
\* call and, when it ends, has not failed on OCR.
C12_OcrOnlyForImages ==
    \A r \in Requests :
        captures.media_type # "image" =>
            /\ ocrCalls[r] = 0
            /\ error[r] # OcrError

\* ------------------------------------------------- vocabulary of the
\* search properties

\* the handler has answered a request it dispatched to hybridSearch with a
\* result list
HybridAnswered ==
    /\ spc = "done"
    /\ sres.status = 200
    /\ calls.invoked = {"hybridSearch"}

\* fullTextLimit as the handler passes it to hybridSearch
FullTextLimit == CeilHalf(ParseInt(query.limit))

\* the ids of a list of rows or entries
Ids(list) == {list[i].id : i \in 1..Len(list)}

\* the positions of id in a list
Positions(list, id) == {i \in 1..Len(list) : list[i].id = id}

\* the largest element of a non-empty set of numbers
Greatest(S) == CHOOSE x \in S : \A y \in S : y <= x

\* ------------------------------------------------------------------ C13

\* C13: in a hybrid result, every id that is among the semantic results
\* and among the full-text results truncated to fullTextLimit has exactly
\* one entry; its searchType is 'semantic' and its relevanceScore is the
\* similarity of the semantic result with that id (of the last one, should
\* the lookup have answered with the id twice).
C13_DedupPrefersSemantic ==
    HybridAnswered =>
        \A id \in Ids(semantic.data) \cap Ids(Slice(fulltext.data, FullTextLimit)) :
            /\ Cardinality(Positions(sres.results, id)) = 1
            /\ \A i \in Positions(sres.results, id) :
                  /\ sres.results[i].searchType = "semantic"
                  /\ sres.results[i].relevanceScore =
                        semantic.data[Greatest(Positions(semantic.data, id))].similarity

\* a hybrid result for lookups that both returned the capture "c2", the
\* semantic one with a similarity below the full-text score
C13_Witness ==
    /\ HybridAnswered
    /\ Len(semantic.data) = 1
    /\ semantic.data[1] = [id |-> "c2", similarity |-> <<7, 10>>]
    /\ "c2" \in Ids(Slice(fulltext.data, FullTextLimit))
    /\ Len(sres.results) >= 2

\* ------------------------------------------------------------------ C14

\* C14: the list of a hybrid result is in non-increasing order of
\* relevanceScore.
C14_SortedByRelevance ==
    HybridAnswered =>
        \A i, j \in 1..Len(sres.results) :
            i < j => FracLeq(sres.results[j].relevanceScore,
                             sres.results[i].relevanceScore)

\* a hybrid result in which a full-text entry precedes a semantic entry of
\* strictly lower score, and is itself preceded by another entry
C14_Witness ==
    /\ HybridAnswered
    /\ \E i, j \in 2..Len(sres.results) :
          /\ i < j
          /\ sres.results[i].searchType = "fulltext"
          /\ sres.results[j].searchType = "semantic"
          /\ FracLess(sres.results[j].relevanceScore,
                      sres.results[i].relevanceScore)

\* ------------------------------------------------------------------ C15

\* C15: when fullTextLimit is at least 1 (and the similarities are in
\* [0, 1]), every entry of a hybrid result has a relevanceScore in [0, 1],
\* and that of a full-text entry is greater than 0.
C15_NormalizedScores ==
    HybridAnswered /\ (\E l \in FullTextLimit : l >= 1) =>
        \A i \in 1..Len(sres.results) :
            LET e == sres.results[i]
            IN  /\ FracLeq(<<0, 1>>, e.relevanceScore)
                /\ FracLeq(e.relevanceScore, <<1, 1>>)
                /\ e.searchType = "fulltext" =>
                      FracLess(<<0, 1>>, e.relevanceScore)

\* a hybrid result with the lowest full-text score of fullTextLimit 2 next
\* to a semantic entry of similarity 0
C15_Witness ==
    /\ HybridAnswered
    /\ FullTextLimit = {2}
    /\ \E i, j \in 1..Len(sres.results) :
          /\ sres.results[i].searchType = "fulltext"
          /\ sres.results[i].relevanceScore = <<1, 2>>
          /\ sres.results[j].searchType = "semantic"
          /\ sres.results[j].relevanceScore = <<0, 1>>

\* ------------------------------------------------------------------ C16

\* C16: the step that calls hybridSearch starts both lookups; a result
\* list is answered only when both lookups have returned; a lookup that
\* fails while the other is pending or has returned makes the handler
\* answer 500 with the hybrid error and no result list; and an answer, once
\* sent, is not changed by a lookup that settles later.
C16_AllOrNothing ==
    /\ [][spc = "idle" /\ calls'.invoked = {"hybridSearch"} =>
            /\ semantic'.pc \in {"embed", "err"}
            /\ fulltext'.pc = "select"
            /\ calls'.select = 1]_vars
    /\ [](HybridAnswered => semantic.pc = "ok" /\ fulltext.pc = "ok")
    /\ [](calls.invoked = {"hybridSearch"}
            /\ (semantic.pc = "err" \/ fulltext.pc = "err") =>
                /\ spc = "done"
                /\ sres.status = 500
                /\ sres.details[1] = "Hybrid search failed"
                /\ "results" \notin DOMAIN sres)
    /\ [][spc = "done" => spc' = "done" /\ sres' = sres]_vars

\* the semantic lookup had returned rows when the full-text lookup failed:
\* the handler answered 500
C16_Witness ==
    /\ spc = "done"
    /\ calls.invoked = {"hybridSearch"}
    /\ semantic.pc = "ok"
    /\ semantic.data # <<>>
    /\ fulltext.pc = "err"
    /\ sres.status = 500

\* ------------------------------------------------------------------ C17

\* the capture with this id belongs to user u and is completed
CompletedCaptureOf(id, u) ==
    \E row \in Table :
        /\ row.id = id
        /\ row.user_id = u
        /\ row.processing_status = "completed"

\* C17: every row the full-text lookup returns, every result of a
\* 'fulltext' search and every 'fulltext' entry of a hybrid result is a
\* capture of the requesting user whose status is 'completed'.
C17_FullTextOnlyCompleted ==
    /\ fulltext.pc = "ok" =>
          \A id \in Ids(fulltext.data) : CompletedCaptureOf(id, query.userId)
    /\ spc = "done" /\ sres.status = 200
          /\ calls.invoked = {"fullTextSearch"} =>
          \A id \in Ids(sres.results) : CompletedCaptureOf(id, query.userId)
    /\ HybridAnswered =>
          \A i \in 1..Len(sres.results) :
              sres.results[i].searchType = "fulltext" =>
                  CompletedCaptureOf(sres.results[i].id, query.userId)

\* a full-text search answered with the two other captures of the owner
\* while the capture "c1" was failed
C17_Witness ==
    /\ spc = "done"
    /\ sres.status = 200
    /\ calls.invoked = {"fullTextSearch"}
    /\ captures.processing_status = "failed"
    /\ Ids(sres.results) = {"c2", "c3"}

\* ------------------------------------------------------------------ C18

\* the search request has passed the validation of the handler
Dispatched ==
    /\ spc # "idle"
    /\ query.method = "GET"
    /\ query.q \notin {NULL, ""}
    /\ query.userId # NULL

\* C18: a request that passes validation invokes exactly one search
\* function: semanticSearch for type 'semantic', whose rows are answered
\* as they are and no select is made; fullTextSearch for type 'fulltext',
\* whose rows are answered as they are and no embedding or rpc call is
\* made; hybridSearch when the type is missing (or 'hybrid'), whose merged
\* entries are answered.
C18_ModeSelection ==
    Dispatched =>
        /\ Cardinality(calls.invoked) = 1
        /\ query.type = "semantic" =>
              /\ calls.invoked = {"semanticSearch"}
              /\ fulltext = NoLookup /\ calls.select = 0
              /\ sres.status = 200 => sres.results = semantic.data
        /\ query.type = "fulltext" =>
              /\ calls.invoked = {"fullTextSearch"}
              /\ semantic = NoLookup
              /\ calls.embedding = 0 /\ calls.rpc = 0
              /\ sres.status = 200 => sres.results = fulltext.data
        /\ query.type \in {NULL, "hybrid"} =>
              /\ calls.invoked = {"hybridSearch"}
              /\ sres.status = 200 =>
                    /\ sres.type = "hybrid"
                    /\ \A i \in 1..Len(sres.results) :
                          sres.results[i].searchType \in {"semantic", "fulltext"}

\* a request without a type was answered with a merged list
C18_Witness ==
    /\ Dispatched
    /\ query.type = NULL
    /\ sres.status = 200
    /\ Len(sres.results) >= 2
    /\ sres.results[1].searchType = "fulltext"
    /\ sres.results[2].searchType = "semantic"

\* ------------------------------------------------------------------ C19

\* C19: a GET request without a query or without a user id is answered
\* 400 in the step that receives it; it starts no lookup and makes no
\* embedding call, no rpc and no select.
C19_ValidationFirst ==
    spc # "idle" /\ query.method = "GET"
        /\ (query.q \in {NULL, ""} \/ query.userId = NULL) =>
            /\ spc = "done"
            /\ sres.status = 400
            /\ calls = NoCalls
            /\ semantic = NoLookup
            /\ fulltext = NoLookup

\* a request with a query but without a user id was answered 400
C19_Witness ==
    /\ spc = "done"
    /\ query.q = "invoice"
    /\ query.userId = NULL
    /\ sres = [status |-> 400, error |-> "User ID is required"]

\* ------------------------------------------------------------------ C20

\* C20: the step in which the select answers with captures issues one
\* request per capture; a request that has settled keeps its outcome
\* whatever the others do, and a rejected request leaves the others
\* running; the batch ends only when every request has settled, and then
\* returns a report (it does not throw) whose list has one entry per
\* selected capture, in selection order, each with the outcome of that
\* capture's request, and whose counters satisfy processed + failed =
\* total = the number of selected captures.
C20_AllSettle ==
    /\ [][bpc = "select" /\ pendingCaptures' # <<>> =>
            /\ Len(settlements') = Len(pendingCaptures')
            /\ \A i \in 1..Len(settlements') : settlements'[i].status = "fetch"]_vars
    /\ [][\A i \in 1..Len(settlements) :
            /\ IsSettled(settlements[i]) => settlements'[i] = settlements[i]
            /\ ~IsSettled(settlements[i]) /\ settlements'[i] = settlements[i] =>
                  bpc' = "settling" /\ report' = report]_vars
    /\ [](bpc = "done" /\ pendingCaptures # <<>> =>
            /\ \A i \in 1..Len(settlements) : IsSettled(settlements[i])
            /\ "thrown" \notin DOMAIN report
            /\ Len(report.results) = Len(pendingCaptures)
            /\ \A i \in 1..Len(pendingCaptures) :
                  /\ report.results[i].captureId = pendingCaptures[i]
                  /\ report.results[i].success = (settlements[i].status = "fulfilled")
            /\ report.total = Len(pendingCaptures)
            /\ report.processed + report.failed = report.total)
    /\ [](bpc = "settling" => \E i \in 1..Len(settlements) : ~IsSettled(settlements[i]))

\* a batch of three captures ended with the first request rejected and the
\* two others fulfilled
C20_Witness ==
    /\ bpc = "done"
    /\ Len(pendingCaptures) = 3
    /\ settlements[1].status = "rejected"
    /\ report.processed = 2
    /\ report.failed = 1
    /\ ~report.results[1].success
    /\ report.results[3].success

\* ------------------------------------------------------------------ C21
\* C21: the sanitizer is idempotent: applied a second time, to what the
\* first application returned, it returns its argument unchanged.
C21_Idempotent ==
    applied = 2 => returned = given

\* ------------------------------------------------------------------ C22
\* where a label starts in the combined text, and the sections' order
StartsOf(label) ==
    {i \in 1..Len(returned) :
        /\ i + Len(label) - 1 <= Len(returned)
        /\ SubSeq(returned, i, i + Len(label) - 1) = label}

Labels == <<NoteLabel, ContentLabel, TagsLabel, TemporalLabel>>

\* a source that is empty or absent: null, "" or blank for the two strings,
\* null or no entry for the tags and for the temporal context
EmptySource(k) ==
    LET v == IF k = 1 THEN given.note
             ELSE IF k = 2 THEN given.extractedText
             ELSE IF k = 3 THEN given.tags
             ELSE given.temporalContext
    IN  \/ v = Absent
        \/ v[1] = <<>>
        \/ k \in {1, 2} /\ Trim(v[1]) = <<>>

\* C22: the combined text has its sections in the order Note, Content,
\* Tags, Temporal context, each at most once and joined by one blank line;
\* a section is there exactly when its source is not empty or absent, and
\* no label is followed by an empty body.
C22_OrderedNoEmptyBody ==
    applied = 1 =>
        /\ \A k \in 1..4 :
              /\ Cardinality(StartsOf(Labels[k])) <= 1
              /\ (StartsOf(Labels[k]) = {}) = EmptySource(k)
        /\ \A k, l \in 1..4 : \A i \in StartsOf(Labels[k]) :
              \A j \in StartsOf(Labels[l]) : k < l => i < j
        /\ \A k \in 1..4 : \A i \in StartsOf(Labels[k]) :
              /\ \/ i = 1
                 \/ i > 2 /\ SubSeq(returned, i - 2, i - 1) = <<"\n", "\n">>
              /\ i + Len(Labels[k]) <= Len(returned)
              /\ returned[i + Len(Labels[k])] # "\n"
        /\ \A i \in 1..Len(returned) : returned[i] = "\n" =>
              \E k \in 1..4 : StartsOf(Labels[k]) \cap {i + 1, i + 2} # {}
        /\ returned # <<>> => \E k \in 1..4 : 1 \in StartsOf(Labels[k])

\* ------------------------------------------------------------------ C23
\* C23: generateEmbedding returns the vector the embedding service produced
\* or fails. A blank text fails with the no-text error and the service is
\* never called; a failure of the service fails with an error that wraps
\* the service's message; the vector handed on to match_captures is the one
\* the service answered with, never one made up after a failure.
C23_VectorOrFailure ==
    /\ [](semantic.pc # "off" /\ query.q = " " =>
            /\ calls.embedding = 0
            /\ calls.created = "none"
            /\ semantic.pc \in {"err", "discarded"}
            /\ semantic.pc = "err" =>
                  semantic.error = SemanticFailed(NoTextError))
    /\ [](semantic.pc = "rpc" =>
            /\ calls.created = Vector
            /\ semantic.query_embedding = calls.created)
    /\ [][semantic.pc = "embed" /\ calls'.created = "throw" =>
            /\ semantic'.pc \in {"err", "discarded"}
            /\ semantic'.pc = "err" =>
                  semantic'.error = SemanticFailed(EmbeddingError)
            /\ calls'.rpc = calls.rpc]_vars

\* the service has thrown and the lookup has failed with the wrapped error
C23_Witness ==
    /\ calls.created = "throw"
    /\ semantic.pc = "err"
    /\ semantic.error = SemanticFailed(EmbeddingError)

\* ------------------------------------------------------------------ C24
\* C24: whatever combination of year, month name, hour, short match and
\* relative word the best match has, the confidence temporal extraction
\* returns lies between 0 and 1 (0 and ConfidenceMax hundredths).
C24_ConfidenceBounds ==
    applied = 1 /\ ~returned.isNull =>
        returned.confidence >= 0 /\ returned.confidence <= ConfidenceMax

\* the lowest case is reached: every penalty and no bonus
C24_Witness ==
    /\ applied = 1
    /\ given.parserOk
    /\ given.match.found
    /\ given.match.short /\ given.match.relative
    /\ ~given.match.hasYear /\ ~given.match.hasMonth /\ ~given.match.hasHour
    /\ returned.confidence = ConfidenceBase - ShortPenalty - RelativePenalty

\* ------------------------------------------------------------------ C25
\* C25: within an attempt no OCR call and no embedding call is issued
\* before storage has accepted the attempt's 'processing' update, which is
\* the attempt's first write.
C25_ProcessingWriteFirst ==
    /\ [](\A r \in Requests :
            ocrCalls[r] > 0 \/ embCalls[r] > 0 => WroteProcessing(r))
    /\ [][\A r \in Requests :
            ocrCalls'[r] > ocrCalls[r] \/ embCalls'[r] > embCalls[r] =>
                /\ writes[r] = <<>> \/ WroteProcessing(r)
                /\ WroteProcessing(r)']_vars

\* an attempt has issued both calls after its accepted 'processing' update
C25_Witness ==
    \E r \in Requests :
        /\ ocrCalls[r] > 0
        /\ embCalls[r] > 0
        /\ WroteProcessing(r)

\* ------------------------------------------------------------------ C26
\* the fields of the row that the 'completed' update may touch
CompletedFields == DerivedFields \cup {"processing_status", "processed_at"}

\* the step is r's final update being accepted by storage
Completes(r) == pc[r] = "final" /\ pc'[r] = "return"

\* C26: the accepted 'completed' update sets extracted_text to the text of
\* the attempt (the empty string included), the status to 'completed' and
\* processed_at; it sets the embedding only when the attempt produced one
\* and a temporal field only when the extractor produced it; every other
\* field of the row keeps its value.
C26_CompletedUpdateFrame ==
    [][\A r \in Requests : Completes(r) =>
        LET info == temporalInfo[r]
            Kept(f) == captures'[f] = captures[f]
        IN  /\ captures'.extracted_text = extractedText[r]
            /\ captures'.processing_status = "completed"
            /\ captures'.processed_at = Now
            /\ IF embedding[r] # NULL
               THEN captures'.embedding = embedding[r]
               ELSE Kept("embedding")
            /\ IF ~info.isNull /\ info.extractedDate # NULL
               THEN captures'.extracted_date = info.extractedDate
               ELSE Kept("extracted_date")
            /\ IF ~info.isNull /\ info.extractedTime # NULL
               THEN captures'.extracted_time = info.extractedTime
               ELSE Kept("extracted_time")
            /\ IF ~info.isNull /\ info.extractedDatetime # NULL
               THEN captures'.extracted_datetime = info.extractedDatetime
               ELSE Kept("extracted_datetime")
            /\ Kept("date_confidence") \/
                  (~info.isNull /\ captures'.date_confidence = {info.confidence})
            /\ Kept("temporal_context") \/
                  (~info.isNull /\ info.temporalContext # {}
                      /\ captures'.temporal_context = info.temporalContext)
            /\ \A f \in DOMAIN captures \ CompletedFields : Kept(f)]_vars

\* an attempt without text, embedding and temporal information has
\* completed: the row has the empty text and nothing else was derived
C26_Witness ==
    \E r \in Requests :
        /\ pc[r] = "return"
        /\ extractedText[r] = ""
        /\ embedding[r] = NULL
        /\ temporalInfo[r].isNull
        /\ captures.processing_status = "completed"
        /\ captures.extracted_text = ""
        /\ captures.embedding = NULL

\* ------------------------------------------------------------------ C27
\* the full-text list as hybridSearch iterates it, and the 0-based ranks of
\* its rows whose id is not among the semantic results
Truncated == Slice(fulltext.data, FullTextLimit)
FreshRanks == {i \in 0..(Len(Truncated) - 1) :
                  Truncated[i + 1].id \notin Ids(semantic.data)}

\* the relevanceScore of the full-text entry of the row of rank i
ScoreOf(i) ==
    LET e == CHOOSE k \in 1..Len(sres.results) :
                 sres.results[k].id = Truncated[i + 1].id
    IN  sres.results[e].relevanceScore

\* every row of the truncated full-text list whose id no semantic result
\* has is in the answer once, as a 'fulltext' entry scored 1 - i/limit with
\* i its rank in the truncated list, duplicates counted
RankedByPosition ==
    \A i \in FreshRanks : \A l \in FullTextLimit :
        /\ Cardinality(Positions(sres.results, Truncated[i + 1].id)) = 1
        /\ \A k \in Positions(sres.results, Truncated[i + 1].id) :
              /\ sres.results[k].searchType = "fulltext"
              /\ sres.results[k].relevanceScore[1] * l
                    = (l - i) * sres.results[k].relevanceScore[2]

\* C27 as stated: the scores are 1 - i/fullTextLimit by rank in the
\* truncated list, and they strictly decrease with the rank.
C27_AsStated ==
    HybridAnswered =>
        /\ RankedByPosition
        /\ \A i, j \in FreshRanks : i < j => FracLess(ScoreOf(j), ScoreOf(i))

\* C27 amended: the scores are 1 - i/fullTextLimit by rank in the truncated
\* list; they strictly decrease with the rank when fullTextLimit is at
\* least 1 and strictly increase with it when fullTextLimit is negative.
C27_PositionalScores ==
    HybridAnswered =>
        /\ RankedByPosition
        /\ \A i, j \in FreshRanks : \A l \in FullTextLimit : i < j =>
              IF l >= 1 THEN FracLess(ScoreOf(j), ScoreOf(i))
              ELSE FracLess(ScoreOf(i), ScoreOf(j))

\* with fullTextLimit 2 the first full-text row repeats a semantic result
\* and the second, of rank 1, is scored 1/2
C27_Witness ==
    /\ HybridAnswered
    /\ FullTextLimit = {2}
    /\ Len(Truncated) = 2
    /\ FreshRanks = {1}
    /\ ScoreOf(1) = <<1, 2>>

\* ------------------------------------------------------------------ C28
\* the temporal fields of the row
TemporalFields ==
    {"extracted_date", "extracted_time", "extracted_datetime",
     "date_confidence", "temporal_context"}

\* C28 as stated: an attempt whose date parser threw has no temporal
\* information, never fails, and ends with its 'completed' update accepted.
C28_AsStated ==
    \A r \in Requests :
        parseErrors[r] > 0 =>
            /\ pc[r] \notin {"catch", "rethrow"}
            /\ pc[r] = "return" =>
                  /\ temporalInfo[r].isNull
                  /\ Last(writes[r]) = [status |-> "completed", ok |-> TRUE]

\* C28 amended: the date parser throwing raises no error in processCapture:
\* the temporal information is null, the attempt goes on to its embedding
\* call or its final update, and that update changes no temporal field; the
\* attempt ends 'completed' when storage accepts the final update and fails
\* with the storage error only when storage rejects it.
C28_ParserFailureSwallowed ==
    /\ [](\A r \in Requests :
            parseErrors[r] > 0 /\ pc[r] \in {"embed", "final", "return"} =>
                temporalInfo[r].isNull)
    /\ [][\A r \in Requests :
            /\ parseErrors'[r] > parseErrors[r] =>
                  /\ pc'[r] \in {"embed", "final"}
                  /\ error'[r] = NoError
            /\ parseErrors[r] > 0 /\ pc[r] = "embed" =>
                  pc'[r] \in {"embed", "final"}
            /\ parseErrors[r] > 0 /\ pc[r] = "final" /\ pc'[r] # "final" =>
                  /\ \A f \in TemporalFields : captures'[f] = captures[f]
                  /\ pc'[r] \in {"return", "catch"}
                  /\ pc'[r] = "return" =>
                        /\ Last(writes'[r]) = [status |-> "completed", ok |-> TRUE]
                        /\ captures'.processing_status = "completed"
                  /\ pc'[r] = "catch" =>
                        /\ error'[r] = FinalUpdateError
                        /\ ~Last(writes'[r]).ok]_vars

\* the parser threw on a note with a date in it and the attempt returned:
\* the capture is 'completed' without any temporal field
C28_Witness ==
    \E r \in Requests :
        /\ parseErrors[r] > 0
        /\ args[r].note = NoteDoctor
        /\ pc[r] = "return"
        /\ captures.processing_status = "completed"
        /\ captures.extracted_date = NULL
        /\ captures.extracted_time = NULL
        /\ captures.extracted_datetime = NULL
        /\ captures.date_confidence = {}
        /\ captures.temporal_context = {}

\* ------------------------------------------------------------------ C29
\* the step changes the status, the text or the embedding of the row
ChangesResult ==
    \/ captures'.processing_status # captures.processing_status
    \/ captures'.extracted_text # captures.extracted_text
    \/ captures'.embedding # captures.embedding

\* C29 as stated: once the row is 'completed' no step changes its status,
\* text or embedding, and when every request has been answered, one of them
\* with success, the row is 'completed'.
C29_AsStated ==
    /\ [][captures.processing_status = "completed" => ~ChangesResult]_vars
    /\ []((\A r \in Requests : pc[r] = "done")
            /\ (\E q \in Requests : res[q].status = 200) =>
                captures.processing_status = "completed")

\* C29 amended: a request that reads the row once it is 'completed' answers
\* without entering processCapture and without any update; the status, the
\* text and the embedding of a 'completed' row are changed only by an
\* attempt that entered processCapture on an earlier read of the row, by its
\* 'processing' update, its final update or its 'failed' update.
C29_StableForLaterReads ==
    [][captures.processing_status = "completed" =>
        /\ \A r \in Requests :
              pc[r] = "fetch" /\ pc'[r] # "fetch" =>
                  /\ pc'[r] = "done"
                  /\ captures' = captures
                  /\ writes'[r] = <<>>
        /\ ChangesResult =>
              \E r \in Requests :
                  /\ pc[r] \in {"status", "final", "catch"}
                  /\ pc'[r] # pc[r]
                  /\ Len(writes'[r]) = Len(writes[r]) + 1
                  /\ Last(writes'[r]).ok]_vars

\* every request has been answered, one of them with success, and the row
\* is 'failed': the attempt of the other request overwrote 'completed'
C29_Witness ==
    /\ \A r \in Requests : pc[r] = "done"
    /\ \E q \in Requests : res[q].status = 200
    /\ captures.processing_status = "failed"

\* ------------------------------------------------------------------ C30
\* the number of 'fulltext' entries of the answer
FullTextCount ==
    Cardinality({i \in 1..Len(sres.results) :
                    sres.results[i].searchType = "fulltext"})

\* no id has two entries in the answer
UniqueIds ==
    \A i, j \in 1..Len(sres.results) :
        sres.results[i].id = sres.results[j].id => i = j

====
